---- MODULE Spec2Model ----
(***************************************************************************)
(* depsver: the dependency analysis and the update workflow of NpmManager  *)
(* (src/src/managers/NpmManager.ts) and the registry client of             *)
(* src/src/utils/registry.ts, as state machines.                           *)
(*                                                                         *)
(* Spec         one run of NpmManager.analyze over a manifest, a lockfile  *)
(*              and the answers of the registry, step by step.             *)
(* SpecRegistry fetchLatestVersions / fetchLatestVersionWithRetry: batches *)
(*              of lookups with the version cache, the retries and the     *)
(*              clock.                                                     *)
(* SpecUpdate   runs of NpmManager.update, stage by stage, over the        *)
(*              project files and the backup directories on disk.          *)
(* SpecBackup   NpmManager.createBackup and restoreBackup called on their  *)
(*              own, between edits of the project files.                   *)
(***************************************************************************)
EXTENDS Integers, Sequences, FiniteSets, TLC

(***************************************************************************)
(* Bounds of the model.                                                    *)
(***************************************************************************)
\* latest versions the registry may publish have a minor component 0..MaxMinor
MaxMinor == 1

\* the clock ticks at most MaxTicks times
MaxTicks == 2

\* the longest batch the concurrency limit is computed for
MaxBatch == 160

(***************************************************************************)
(* Values.  A version is a triple <<major, minor, patch>> (release         *)
(* versions only); the sentinel 'unknown' is the empty tuple.  A range is  *)
(* a record [op, v]: "^1.0.0" is [op |-> "^", v |-> <<1,0,0>>]; the empty  *)
(* string is op "" and a missing key (JS undefined) is op "undefined".     *)
(***************************************************************************)
unknown == <<>>

V(major, minor, patch) == <<major, minor, patch>>

Range(op, v) == [op |-> op, v |-> v]

EmptyRange == Range("", V(0, 0, 0))

Undefined == Range("undefined", V(0, 0, 0))

\* JS truthiness of a range string: "" and undefined are falsy
Truthy(r) == r.op \notin {"", "undefined"}

\* obj[key] of a JS object modelled as a function
Get(obj, key) == IF key \in DOMAIN obj THEN obj[key] ELSE Undefined

\* a || b
OrElse(a, b) == IF Truthy(a) THEN a ELSE b

EmptyObj == [n \in {} |-> Undefined]

(***************************************************************************)
(* The semver library, on release versions.                                *)
(***************************************************************************)
\* semver.compare(a, b) > 0
semverGt(a, b) ==
    \/ a[1] > b[1]
    \/ a[1] = b[1] /\ a[2] > b[2]
    \/ a[1] = b[1] /\ a[2] = b[2] /\ a[3] > b[3]

semverGte(a, b) == a = b \/ semverGt(a, b)

semverMajor(v) == v[1]

\* semver.diff(a, b) for a # b: the first component that differs
semverDiff(a, b) ==
    IF a = b THEN "null"
    ELSE IF a[1] # b[1] THEN "major"
    ELSE IF a[2] # b[2] THEN "minor"
    ELSE "patch"

\* semver.satisfies(version, range); a version or a range that does not parse
\* is never satisfied, "" and "*" accept every release version
semverSatisfies(v, r) ==
    CASE v = unknown -> FALSE
      [] r.op = "^" ->
           /\ semverGte(v, r.v)
           /\ IF r.v[1] > 0 THEN v[1] = r.v[1]
              ELSE IF r.v[2] > 0 THEN v[1] = 0 /\ v[2] = r.v[2]
              ELSE v = r.v
      [] r.op = "~" -> semverGte(v, r.v) /\ v[1] = r.v[1] /\ v[2] = r.v[2]
      [] r.op = "=" -> v = r.v
      [] r.op = ">=" -> semverGte(v, r.v)
      [] r.op \in {"*", ""} -> TRUE
      [] OTHER -> FALSE

(***************************************************************************)
(* JS containers.  An object whose key order is observed (the manifest's   *)
(* sections, requestedDependencies) is a sequence of <<key, value>> pairs  *)
(* with distinct keys, in insertion order.  A Map is a record              *)
(* [keys: the keys in insertion order, val: key -> value].                 *)
(***************************************************************************)
RECURSIVE ObjKeys(_)
\* Object.keys(obj)
ObjKeys(obj) ==
    IF obj = <<>> THEN <<>> ELSE <<obj[1][1]>> \o ObjKeys(Tail(obj))

RECURSIVE ObjGet(_, _)
\* obj[key], undefined when the key is missing
ObjGet(obj, key) ==
    IF obj = <<>> THEN Undefined
    ELSE IF obj[1][1] = key THEN obj[1][2]
    ELSE ObjGet(Tail(obj), key)

RECURSIVE ObjSet(_, _, _)
\* obj[key] = value: an existing key keeps its place
ObjSet(obj, key, value) ==
    IF obj = <<>> THEN << <<key, value>> >>
    ELSE IF obj[1][1] = key THEN << <<key, value>> >> \o Tail(obj)
    ELSE <<obj[1]>> \o ObjSet(Tail(obj), key, value)

\* a merge that appends the second object's pairs, keeping a repeated key twice
Spread_Concat(a, b) == a \o b

RECURSIVE Spread(_, _)
\* { ...a, ...b }
Spread(a, b) ==
    IF b = <<>> THEN a ELSE Spread(ObjSet(a, b[1][1], b[1][2]), Tail(b))

RECURSIVE SeqToSet(_)
SeqToSet(s) == IF s = <<>> THEN {} ELSE {s[1]} \cup SeqToSet(Tail(s))

RECURSIVE SelectNames(_, _)
\* array.filter(x => x in keep)
SelectNames(s, keep) ==
    IF s = <<>> THEN <<>>
    ELSE (IF s[1] \in keep THEN <<s[1]>> ELSE <<>>) \o SelectNames(Tail(s), keep)

EmptyMap == [keys |-> <<>>, val |-> <<>>]

MapHas(m, k) == k \in DOMAIN m.val

\* map.set(k, v): a key already present keeps its place, its value is replaced
MapSet(m, k, v) ==
    [keys |-> IF MapHas(m, k) THEN m.keys ELSE Append(m.keys, k),
     val  |-> (k :> v) @@ m.val]

\* set.add(x) on a Set kept as the sequence of its members in insertion order
SetAdd(s, x) == IF x \in SeqToSet(s) THEN s ELSE Append(s, x)

(***************************************************************************)
(* Package names and lockfile paths.  A path is the sequence of its        *)
(* "/"-separated segments: "node_modules/a" is <<"node_modules", "a">>,    *)
(* the root entry "" is <<>>.                                              *)
(***************************************************************************)
NodeModules == "node_modules"

\* the names of the model that match /^(@[a-z0-9-.]+\/[a-z0-9-.]+|[a-z0-9-.]+)$/
\* ("B_d" has an upper-case letter and an underscore, "" is empty)
ValidNames == {"a", "b", "c", "@s/d"}

isValidPackageName(packageName) == packageName \in ValidNames

\* segments[0].startsWith('@')
StartsWithAt(segment) == segment \in {"@s"}

RECURSIVE LastMarker(_, _)
\* the last k < Len(path) with path[k] = "node_modules" ("node_modules/" needs
\* a segment after it), 0 when there is none
LastMarker(path, k) ==
    IF k = 0 THEN 0
    ELSE IF k < Len(path) /\ path[k] = NodeModules THEN k
    ELSE LastMarker(path, k - 1)

extractPackageName(packagePath) ==
    LET k == LastMarker(packagePath, Len(packagePath))
        segments == SubSeq(packagePath, k + 1, Len(packagePath))
    IN  IF packagePath = <<>> \/ k = 0 THEN ""
        ELSE IF StartsWithAt(segments[1])
             THEN IF Len(segments) = 1 THEN segments[1]
                  ELSE IF Len(segments) = 2 /\ segments[2] # ""
                       THEN segments[1] \o "/" \o segments[2]
                       ELSE segments[Len(segments)]
        ELSE segments[Len(segments)]

(***************************************************************************)
(* State.                                                                  *)
(***************************************************************************)
VARIABLES
    \* NpmManager.analyze: its inputs
    packageJson,                \* [dependencies, devDependencies]: objects name -> range
    packageLock,                \* packages: sequence of [path, version, dependencies, peerDependencies]
    registry,                   \* name -> what fetchLatestVersions answers for it
    \* NpmManager.analyze: its locals
    pc,
    requestedDependencies,
    topLevelPackageNames,
    topLevelLatestVersions,
    initialPackagesMap,
    potentiallyBlockedPackages,
    transitivePackagesToFetch,
    selectiveLatestVersions,
    allPackagesMap,
    allDependencies,
    dependencyIndex,
    reverseDependencyIndex,
    depIdx,                     \* position of the classification loop in Object.keys(requestedDependencies)
    safe,
    blocked,
    majorJump,
    \* NpmManager.previewUpdate: its options and the packages of the plan
    plan,
    \* registry.ts: the module's state and the clock
    versionCache,               \* name -> [version, timestamp]
    now,                        \* Date.now(), in ms
    \* fetchLatestVersions: the call in progress
    fpc,                        \* "idle", "running", "returned" or "rejected"
    packageNames,
    chunkStart,                 \* i of the loop that cuts the chunks, from 1
    lookups,                    \* the fetchLatestVersionWithRetry calls of the current chunk
    versionMap,
    \* history, for the claims
    settled,                    \* per lookup the call has collected: its name, and
                                \* whether it got a version
    resolved,                   \* name -> the last lookup of it that returned since the
                                \* cache was last cleared
    \* the project directory on disk
    files,                      \* [packageJson, packageLock]: the content of each file
    backups,                    \* the .depsver-backup-* directories, oldest first
    \* NpmManager.update: the call in progress
    upc,                        \* the statement update has reached
    options,                    \* [backup, dryRun, runTests]
    selectedUpdates,
    preValidationErrors,
    result,                     \* [success, updated, failed, errors, backupPath]
    \* history, for the claims
    stages,                     \* the stages update has entered, in order
    calls,                      \* the commands executed and the files written since
                                \* the operation began
    thrown,                     \* the error the last operation raised, or NoError
    lastOp                      \* the last createBackup or restoreBackup: [op, path,
                                \* before]: the project files as it found them

inputVars == <<packageJson, packageLock, registry>>

stageVars == <<requestedDependencies, topLevelPackageNames, topLevelLatestVersions,
               initialPackagesMap, potentiallyBlockedPackages,
               transitivePackagesToFetch, selectiveLatestVersions>>

tableVars == <<allPackagesMap, allDependencies, dependencyIndex, reverseDependencyIndex>>

bucketVars == <<depIdx, safe, blocked, majorJump>>

analyzeVars == <<inputVars, pc, stageVars, tableVars, bucketVars, plan>>

registryVars == <<versionCache, now, fpc, packageNames, chunkStart, lookups,
                  versionMap, settled, resolved>>

updateVars == <<files, backups, upc, options, selectedUpdates, preValidationErrors,
                result, stages, calls, thrown, lastOp>>

vars == <<analyzeVars, registryVars, updateVars>>

(***************************************************************************)
(* The project directory on disk.  The content of a file is a token:       *)
(* "original" and "updated" are two different JSON documents in UTF-8,     *)
(* "latin1" is a JSON document with a byte sequence that is not valid      *)
(* UTF-8 inside a string, "replaced" is the same document with U+FFFD in   *)
(* its place, "metadata" is the JSON of a backup-info.json, "garbage" is   *)
(* text JSON.parse rejects; NoFile marks a file that is not there.  An     *)
(* error is a record [name, context]: the class of the error and the       *)
(* context wrapError gave it.                                              *)
(***************************************************************************)
NoFile == "<no file>"

FileStates == {"original", "updated", "latin1", "replaced", "garbage", NoFile}

\* what writeFile(to, await readFile(from, 'utf-8')) stores in the file to:
\* the bytes of from decoded as UTF-8, invalid sequences replaced by U+FFFD,
\* and encoded again
utf8(content) == IF content = "latin1" THEN "replaced" ELSE content

fileExists(file) == file # NoFile

JSONParses(content) ==
    content \in {"original", "updated", "latin1", "replaced", "metadata"}

OriginalFiles == [packageJson |-> "original", packageLock |-> "original"]

NoError == [name |-> "none", context |-> ""]

\* what fs.readFile, fs.mkdir and JSON.parse throw
PlainError == [name |-> "Error", context |-> ""]

DepsverErrors == {"InvalidProjectError", "MalformedPackageJsonError",
                  "MalformedPackageLockError", "NetworkError", "FileSystemError",
                  "ClipboardError", "InternalError", "UpdateFailedError",
                  "RestoreFailedError", "ValidationError"}

wrapError(error, context) ==
    IF error.name \in DepsverErrors
    THEN error
    ELSE [name |-> "InternalError", context |-> context]

\* step 1 of analyze: the error it throws, NoError when both files load
LoadError(f) ==
    IF ~fileExists(f.packageJson)
    THEN wrapError(PlainError, "Failed to read project files")
    ELSE IF ~JSONParses(f.packageJson)
    THEN [name |-> "MalformedPackageJsonError", context |-> ""]
    ELSE IF ~fileExists(f.packageLock)
    THEN wrapError(PlainError, "Failed to read project files")
    ELSE IF ~JSONParses(f.packageLock)
    THEN [name |-> "MalformedPackageLockError", context |-> ""]
    ELSE NoError

NoPath == 0

EmptyResult == [success |-> TRUE, updated |-> <<>>, failed |-> <<>>, blocked |-> <<>>,
                errors |-> <<>>, backupPath |-> NoPath]

\* no update, backup or restore has been called
UpdateRest ==
    /\ backups = <<>>
    /\ upc = "idle"
    /\ options = [backup |-> TRUE, dryRun |-> FALSE, runTests |-> TRUE]
    /\ selectedUpdates = <<>>
    /\ preValidationErrors = <<>>
    /\ result = EmptyResult
    /\ stages = <<>>
    /\ calls = {}
    /\ thrown = NoError
    /\ lastOp = [op |-> "none", path |-> NoPath, before |-> OriginalFiles]

\* the update workflow's variables in the specifications that never touch
\* the disk
UpdateIdle == UpdateRest /\ files = OriginalFiles

(***************************************************************************)
(* NpmManager.analyze, step by step.                                       *)
(***************************************************************************)
\* versions.get(name) || "unknown" on the Map fetchLatestVersions returned
LatestOf(versions, name) == IF name \in DOMAIN versions THEN versions[name] ELSE unknown

\* the Map fetchLatestVersions(names) resolves to: an entry per requested name
FetchLatestVersionsResult(names) == [n \in SeqToSet(names) |-> registry[n]]

\* the DependencyInfo of a lockfile entry (steps 5 and 8)
DependencyInfoOf(packageName, pkgInfo, requested, versions) ==
    [name             |-> packageName,
     requested        |-> OrElse(ObjGet(requested, packageName), Undefined),
     resolved         |-> pkgInfo.version,
     latest           |-> LatestOf(versions, packageName),
     dependencies     |-> pkgInfo.dependencies,
     peerDependencies |-> pkgInfo.peerDependencies]

RECURSIVE InitialPackages(_, _, _, _)
\* step 5: the top-level lockfile entries, by name
InitialPackages(packages, requested, versions, acc) ==
    IF packages = <<>> THEN acc
    ELSE LET packageName == extractPackageName(packages[1].path)
             skip == \/ packages[1].path = <<>>
                     \/ ~isValidPackageName(packageName)
                     \/ ~Truthy(ObjGet(requested, packageName))
         IN  InitialPackages(Tail(packages), requested, versions,
                 IF skip THEN acc
                 ELSE MapSet(acc, packageName,
                             DependencyInfoOf(packageName, packages[1], requested, versions)))

RECURSIVE PotentiallyBlocked(_, _)
\* step 6: the top-level dependencies whose latest version is outside their requested range
PotentiallyBlocked(depNames, initial) ==
    IF depNames = <<>> THEN <<>>
    ELSE LET depName == depNames[1]
             hit == /\ MapHas(initial, depName)
                    /\ initial.val[depName].latest # unknown
                    /\ Truthy(initial.val[depName].requested)
                    /\ ~semverSatisfies(initial.val[depName].latest,
                                        initial.val[depName].requested)
         IN  (IF hit THEN <<depName>> ELSE <<>>)
                 \o PotentiallyBlocked(Tail(depNames), initial)

RECURSIVE TransitiveToFetch(_, _, _, _)
\* step 7: the transitive packages that declare a range on a potentially blocked package
TransitiveToFetch(packages, requested, potentially, acc) ==
    IF packages = <<>> THEN acc
    ELSE LET packageName == extractPackageName(packages[1].path)
             skip == \/ packages[1].path = <<>>
                     \/ ~isValidPackageName(packageName)
                     \/ Truthy(ObjGet(requested, packageName))
             \* { ...pkgInfo.dependencies, ...pkgInfo.peerDependencies }
             allDeps == packages[1].peerDependencies @@ packages[1].dependencies
             hit == \E blockedPackage \in SeqToSet(potentially) :
                        Truthy(Get(allDeps, blockedPackage))
         IN  TransitiveToFetch(Tail(packages), requested, potentially,
                 IF ~skip /\ hit THEN SetAdd(acc, packageName) ELSE acc)

RECURSIVE AllPackages(_, _, _, _)
\* step 8: every lockfile entry with a valid name, by name
AllPackages(packages, requested, versions, acc) ==
    IF packages = <<>> THEN acc
    ELSE LET packageName == extractPackageName(packages[1].path)
             skip == \/ packages[1].path = <<>>
                     \/ ~isValidPackageName(packageName)
         IN  AllPackages(Tail(packages), requested, versions,
                 IF skip THEN acc
                 ELSE MapSet(acc, packageName,
                             DependencyInfoOf(packageName, packages[1], requested, versions)))

RECURSIVE AllDependenciesOf(_, _)
\* step 9: the records of the top-level dependencies, in manifest order
AllDependenciesOf(depNames, table) ==
    IF depNames = <<>> THEN <<>>
    ELSE (IF MapHas(table, depNames[1]) THEN <<table.val[depNames[1]]>> ELSE <<>>)
             \o AllDependenciesOf(Tail(depNames), table)

\* a set of the names under dependencies alone
DependenciesOf_NoPeers(packageInfo) == DOMAIN packageInfo.dependencies

\* step 10: new Set([...Object.keys(dependencies), ...Object.keys(peerDependencies)])
DependenciesOf(packageInfo) ==
    DOMAIN packageInfo.dependencies \cup DOMAIN packageInfo.peerDependencies

DependencyIndexOf(table) ==
    [packageName \in DOMAIN table.val |-> DependenciesOf(table.val[packageName])]

\* step 10: reverse[dep] lists, in the table's order, the packages whose set holds dep
ReverseDependencyIndexOf(table) ==
    LET targets == UNION {DependenciesOf(table.val[n]) : n \in DOMAIN table.val}
    IN  [dep \in targets |->
            SelectNames(table.keys,
                        {n \in DOMAIN table.val : dep \in DependenciesOf(table.val[n])})]

\* a range lookup that reads dependencies only
RequiredRange_DependenciesOnly(blocker, depName) ==
    Get(blocker.dependencies, depName)

\* step 11a: blocker.dependencies[dep.name] || blocker.peerDependencies[dep.name]
RequiredRange(blocker, depName) ==
    OrElse(Get(blocker.dependencies, depName), Get(blocker.peerDependencies, depName))

\* a test that lets only a package whose own latest version is known block
IsBlockedBy_KnownBlocker(dep, blocker) ==
    /\ Truthy(OrElse(Get(blocker.dependencies, dep.name),
                     Get(blocker.peerDependencies, dep.name)))
    /\ dep.latest # unknown
    /\ blocker.latest # unknown
    /\ ~semverSatisfies(dep.latest, OrElse(Get(blocker.dependencies, dep.name),
                                           Get(blocker.peerDependencies, dep.name)))

\* step 11a: the test that makes blockerName the blocker of dep
IsBlockedBy(dep, blocker) ==
    LET requiredRange == RequiredRange(blocker, dep.name)
    IN  /\ Truthy(requiredRange)
        /\ dep.latest # unknown
        /\ ~semverSatisfies(dep.latest, requiredRange)

\* null
NoBlocker == ""

RECURSIVE FoundBlockerName_LastMatch(_, _, _)
\* a scan without the break: the last blocker of requiredBy wins
FoundBlockerName_LastMatch(requiredBy, dep, table) ==
    IF requiredBy = <<>> THEN NoBlocker
    ELSE LET later == FoundBlockerName_LastMatch(Tail(requiredBy), dep, table)
         IN  IF later # NoBlocker THEN later
             ELSE IF MapHas(table, requiredBy[1])
                        /\ Truthy(OrElse(Get(table.val[requiredBy[1]].dependencies, dep.name),
                                         Get(table.val[requiredBy[1]].peerDependencies, dep.name)))
                        /\ dep.latest # unknown
                        /\ ~semverSatisfies(dep.latest,
                               OrElse(Get(table.val[requiredBy[1]].dependencies, dep.name),
                                      Get(table.val[requiredBy[1]].peerDependencies, dep.name)))
                  THEN requiredBy[1]
                  ELSE NoBlocker

RECURSIVE FoundBlockerName(_, _, _)
\* step 11a: the scan of requiredBy, which stops at the first blocker
FoundBlockerName(requiredBy, dep, table) ==
    IF requiredBy = <<>> THEN NoBlocker
    ELSE IF MapHas(table, requiredBy[1]) /\ IsBlockedBy(dep, table.val[requiredBy[1]])
         THEN requiredBy[1]
         ELSE FoundBlockerName(Tail(requiredBy), dep, table)

\* reverseDependencyIndex.get(dep.name) || new Set()
RequiredBy(reverse, depName) ==
    IF depName \in DOMAIN reverse THEN reverse[depName] ELSE <<>>

\* a classification that looks at the size of the jump before the blocker
BucketOf_JumpFirst(dep, foundBlockerName) ==
    IF dep.latest # unknown /\ semverMajor(dep.resolved) < semverMajor(dep.latest)
    THEN "majorJump"
    ELSE IF foundBlockerName # NoBlocker THEN "blocked"
    ELSE IF dep.latest = unknown \/ ~Truthy(dep.requested) THEN "none"
    ELSE IF semverGt(dep.latest, dep.resolved) THEN "safe"
    ELSE "none"

\* step 11b: the bucket of dep, "none" when it is pushed nowhere
BucketOf(dep, foundBlockerName) ==
    IF foundBlockerName # NoBlocker THEN "blocked"
    ELSE IF dep.latest = unknown THEN "none"
    ELSE IF ~Truthy(dep.requested) THEN "none"
    ELSE IF semverGt(dep.latest, dep.resolved)
         THEN IF semverSatisfies(dep.latest, dep.requested)
              THEN IF semverMajor(dep.resolved) < semverMajor(dep.latest)
                   THEN "majorJump" ELSE "safe"
              ELSE IF semverDiff(dep.resolved, dep.latest) \in {"major", "premajor"}
                   THEN "majorJump" ELSE "safe"
    ELSE "none"

\* { ...dep, blocker: foundBlockerName }
WithBlocker(dep, foundBlockerName) ==
    [name             |-> dep.name,
     requested        |-> dep.requested,
     resolved         |-> dep.resolved,
     latest           |-> dep.latest,
     dependencies     |-> dep.dependencies,
     peerDependencies |-> dep.peerDependencies,
     blocker          |-> foundBlockerName]

\* steps 1 and 2: read and parse both files, merge the manifest's sections
LoadFiles ==
    /\ pc = "start"
    /\ LoadError(files) = NoError
    /\ requestedDependencies' =
           Spread(packageJson.dependencies, packageJson.devDependencies)
    /\ topLevelPackageNames' =
           SelectNames(ObjKeys(requestedDependencies'),
                       {n \in SeqToSet(ObjKeys(requestedDependencies')) :
                            isValidPackageName(n)})
    /\ pc' = "stage1"
    /\ UNCHANGED <<registryVars, plan, updateVars, inputVars, topLevelLatestVersions, initialPackagesMap,
                   potentiallyBlockedPackages, transitivePackagesToFetch,
                   selectiveLatestVersions, tableVars, bucketVars>>

\* step 1, when a file cannot be read or parsed: analyze throws
LoadFails ==
    /\ pc = "start"
    /\ LoadError(files) # NoError
    /\ thrown' = LoadError(files)
    /\ pc' = "failed"
    /\ UNCHANGED <<registryVars, plan, inputVars, stageVars, tableVars, bucketVars, files,
                   backups, upc, options, selectedUpdates, preValidationErrors,
                   result, stages, calls, lastOp>>

\* steps 3 and 4: stage 1, the latest versions of the top-level dependencies
FetchTopLevel ==
    /\ pc = "stage1"
    /\ topLevelLatestVersions' = FetchLatestVersionsResult(topLevelPackageNames)
    /\ pc' = "initial"
    /\ UNCHANGED <<registryVars, plan, updateVars, inputVars, requestedDependencies, topLevelPackageNames,
                   initialPackagesMap, potentiallyBlockedPackages,
                   transitivePackagesToFetch, selectiveLatestVersions,
                   tableVars, bucketVars>>

\* step 4, when fetchLatestVersions rejects: the catch block wraps the error
FetchTopLevelRejects ==
    /\ pc = "stage1"
    /\ thrown' = wrapError(PlainError, "Failed to fetch latest package versions")
    /\ pc' = "rejected"
    /\ UNCHANGED <<registryVars, plan, inputVars, stageVars, tableVars, bucketVars, files,
                   backups, upc, options, selectedUpdates, preValidationErrors,
                   result, stages, calls, lastOp>>

\* steps 5 and 6
InitialAnalysis ==
    /\ pc = "initial"
    /\ initialPackagesMap' =
           InitialPackages(packageLock, requestedDependencies,
                           topLevelLatestVersions, EmptyMap)
    /\ potentiallyBlockedPackages' =
           PotentiallyBlocked(ObjKeys(requestedDependencies), initialPackagesMap')
    /\ pc' = "stage2"
    /\ UNCHANGED <<registryVars, plan, updateVars, inputVars, requestedDependencies, topLevelPackageNames,
                   topLevelLatestVersions, transitivePackagesToFetch,
                   selectiveLatestVersions, tableVars, bucketVars>>

\* step 7: stage 2, the latest versions of the possible blockers
FetchTransitive ==
    /\ pc = "stage2"
    /\ transitivePackagesToFetch' =
           IF Len(potentiallyBlockedPackages) > 0
           THEN TransitiveToFetch(packageLock, requestedDependencies,
                                  potentiallyBlockedPackages, <<>>)
           ELSE <<>>
    /\ selectiveLatestVersions' =
           IF Len(transitivePackagesToFetch') > 0
           THEN FetchLatestVersionsResult(transitivePackagesToFetch')
                    @@ topLevelLatestVersions
           ELSE topLevelLatestVersions
    /\ pc' = "table"
    /\ UNCHANGED <<registryVars, plan, updateVars, inputVars, requestedDependencies, topLevelPackageNames,
                   topLevelLatestVersions, initialPackagesMap,
                   potentiallyBlockedPackages, tableVars, bucketVars>>

\* step 7, when the second fetchLatestVersions rejects: no try block is around
\* the call, analyze rejects with the error as it is
FetchTransitiveRejects ==
    /\ pc = "stage2"
    /\ Len(potentiallyBlockedPackages) > 0
    /\ transitivePackagesToFetch' =
           TransitiveToFetch(packageLock, requestedDependencies,
                             potentiallyBlockedPackages, <<>>)
    /\ Len(transitivePackagesToFetch') > 0
    /\ selectiveLatestVersions' = topLevelLatestVersions
    /\ thrown' = PlainError
    /\ pc' = "rejected"
    /\ UNCHANGED <<registryVars, plan, inputVars, requestedDependencies, topLevelPackageNames,
                   topLevelLatestVersions, initialPackagesMap,
                   potentiallyBlockedPackages, tableVars, bucketVars, files,
                   backups, upc, options, selectedUpdates, preValidationErrors,
                   result, stages, calls, lastOp>>

\* steps 8 and 9: the package table and the top-level records
BuildPackageTable ==
    /\ pc = "table"
    /\ allPackagesMap' =
           AllPackages(packageLock, requestedDependencies,
                       selectiveLatestVersions, EmptyMap)
    /\ allDependencies' =
           AllDependenciesOf(ObjKeys(requestedDependencies), allPackagesMap')
    /\ pc' = "index"
    /\ UNCHANGED <<registryVars, plan, updateVars, inputVars, stageVars, dependencyIndex, reverseDependencyIndex,
                   bucketVars>>

\* step 10: the forward and the reverse index
BuildDependencyIndex ==
    /\ pc = "index"
    /\ dependencyIndex' = DependencyIndexOf(allPackagesMap)
    /\ reverseDependencyIndex' = ReverseDependencyIndexOf(allPackagesMap)
    /\ depIdx' = 1
    /\ pc' = "classify"
    /\ UNCHANGED <<registryVars, plan, updateVars, inputVars, stageVars, allPackagesMap, allDependencies,
                   safe, blocked, majorJump>>

\* step 11: one turn of the loop over Object.keys(requestedDependencies)
ClassifyDependency ==
    /\ pc = "classify"
    /\ depIdx <= Len(requestedDependencies)
    /\ LET depName == ObjKeys(requestedDependencies)[depIdx]
       IN  IF ~MapHas(allPackagesMap, depName)
           THEN UNCHANGED <<safe, blocked, majorJump>>
           ELSE LET dep == allPackagesMap.val[depName]
                    foundBlockerName ==
                        FoundBlockerName(RequiredBy(reverseDependencyIndex, dep.name),
                                         dep, allPackagesMap)
                    bucket == BucketOf(dep, foundBlockerName)
                IN  /\ blocked' = IF bucket = "blocked"
                                  THEN Append(blocked, WithBlocker(dep, foundBlockerName))
                                  ELSE blocked
                    /\ majorJump' = IF bucket = "majorJump"
                                    THEN Append(majorJump, dep) ELSE majorJump
                    /\ safe' = IF bucket = "safe" THEN Append(safe, dep) ELSE safe
    /\ depIdx' = depIdx + 1
    /\ UNCHANGED <<registryVars, plan, updateVars, inputVars, pc, stageVars, tableVars>>

\* return { safe, blocked, majorJump, allDependencies }
ReturnReport ==
    /\ pc = "classify"
    /\ depIdx > Len(requestedDependencies)
    /\ pc' = "done"
    /\ UNCHANGED <<registryVars, plan, updateVars, inputVars, stageVars, tableVars, bucketVars>>

\* a version string semver.valid rejects gives 'patch'
getUpdateType(current, target) ==
    IF current = unknown \/ target = unknown THEN "patch"
    ELSE IF target[1] > current[1] THEN "major"
    ELSE IF target[2] > current[2] THEN "minor"
    ELSE "patch"

\* the PackageUpdate of a record of the report
PackageUpdate(dep, category, blocker) ==
    [name           |-> dep.name,
     currentVersion |-> dep.resolved,
     targetVersion  |-> dep.latest,
     updateType     |-> getUpdateType(dep.resolved, dep.latest),
     category       |-> category,
     blocker        |-> blocker]

\* the safe, the major and the blocked updates, in this order
allUpdates(safeDeps, majorDeps, blockedDeps) ==
    [i \in 1..Len(safeDeps) |-> PackageUpdate(safeDeps[i], "safe", NoBlocker)]
    \o [i \in 1..Len(majorDeps) |-> PackageUpdate(majorDeps[i], "major", NoBlocker)]
    \o [i \in 1..Len(blockedDeps) |->
            PackageUpdate(blockedDeps[i], "blocked", blockedDeps[i].blocker)]

\* filters that let every update through
filteredUpdates_Unfiltered(updates, opts) == updates

\* the filters of previewUpdate: safeOnly keeps the safe category; the branch
\* of includeDev is empty
filteredUpdates(updates, opts) ==
    IF opts.safeOnly
    THEN SelectSeq(updates, LAMBDA u : u.category = "safe")
    ELSE updates

NoPlan == [options |-> [safeOnly |-> FALSE, includeDev |-> FALSE], packages |-> <<>>]

\* previewUpdate(options) once its analyze has returned the report
PreviewUpdate ==
    /\ pc = "done"
    /\ \E opts \in [safeOnly : BOOLEAN, includeDev : BOOLEAN] :
           plan' = [options  |-> opts,
                    packages |-> filteredUpdates(allUpdates(safe, majorJump, blocked), opts)]
    /\ pc' = "previewed"
    /\ UNCHANGED <<registryVars, updateVars, inputVars, stageVars, tableVars, bucketVars>>

AnalyzeNext ==
    \/ LoadFiles
    \/ LoadFails
    \/ FetchTopLevel
    \/ FetchTopLevelRejects
    \/ InitialAnalysis
    \/ FetchTransitive
    \/ FetchTransitiveRejects
    \/ BuildPackageTable
    \/ BuildDependencyIndex
    \/ ClassifyDependency
    \/ ReturnReport
    \/ PreviewUpdate

(***************************************************************************)
(* The projects analyze is run on: a manifest, a lockfile and the answers  *)
(* of the registry.                                                        *)
(***************************************************************************)
Caret(v) == Range("^", v)

Exact(v) == Range("=", v)

AtLeast(v) == Range(">=", v)

\* what the registry may publish as the latest version of a package
LatestVersions == {V(1, m, 0) : m \in 1..MaxMinor} \cup {V(2, 0, 0)}

\* a lockfile entry
Package(path, version, dependencies, peerDependencies) ==
    [path |-> path, version |-> version,
     dependencies |-> dependencies, peerDependencies |-> peerDependencies]

RootPackage == Package(<<>>, V(1, 0, 0), EmptyObj, EmptyObj)

\* the ways a package declares ranges on target: none, a dependency range, a
\* peer range, or both with different ranges
ConstraintsOn(target, ranges) ==
    {[dependencies |-> EmptyObj, peerDependencies |-> EmptyObj]}
    \cup {[dependencies |-> (target :> r), peerDependencies |-> EmptyObj] : r \in ranges}
    \cup {[dependencies |-> EmptyObj, peerDependencies |-> (target :> r)] : r \in ranges}
    \cup {[dependencies |-> (target :> r[1]), peerDependencies |-> (target :> r[2])] :
              r \in {q \in ranges \X ranges : q[1] # q[2]}}

\* a section of the manifest: the <<name, range>> pairs whose range is given
RECURSIVE Section(_)
Section(pairs) ==
    IF pairs = <<>> THEN <<>>
    ELSE (IF pairs[1][2] = Undefined THEN <<>> ELSE <<pairs[1]>>) \o Section(Tail(pairs))

\* Projects with the packages a, b and c installed: b and c may require a, a
\* may require b; a and b are declared under dependencies, c under
\* devDependencies.
GraphProjects ==
    { [packageJson |->
          [dependencies    |-> Section(<< <<"a", aReq>>, <<"b", bReq>> >>),
           devDependencies |-> Section(<< <<"c", cTop[1]>> >>)],
       packageLock |->
          LET a == Package(<<NodeModules, "a">>, aRes, aCon.dependencies, aCon.peerDependencies)
              b == Package(<<NodeModules, "b">>, V(1, 0, 0), bCon.dependencies, bCon.peerDependencies)
              c == Package(<<NodeModules, "c">>, V(1, 0, 0), cCon.dependencies, cCon.peerDependencies)
          IN  IF bFirst THEN <<RootPackage, a, b, c>> ELSE <<RootPackage, a, c, b>>,
       registry |-> [n \in {"a", "b", "c"} |->
                        IF n = "a" THEN aLatest ELSE IF n = "b" THEN bLatest ELSE cTop[2]]]
      : aReq \in {Undefined, EmptyRange, Caret(V(1, 0, 0)), Exact(V(1, 0, 0)), AtLeast(V(1, 0, 0))},
        aRes \in {V(1, 0, 0), V(2, 0, 0)},
        aLatest \in {unknown} \cup LatestVersions,
        aCon \in {c \in ConstraintsOn("b", {Caret(V(1, 0, 0))}) : c.peerDependencies = EmptyObj},
        bReq \in {Undefined, Caret(V(1, 0, 0))},
        bLatest \in {unknown, V(2, 0, 0)},
        bCon \in ConstraintsOn("a", {Caret(V(1, 0, 0)), Caret(V(2, 0, 0))}),
        cTop \in {<<Undefined, unknown>>, <<Caret(V(1, 0, 0)), V(2, 0, 0)>>},
        cCon \in ConstraintsOn("a", {Caret(V(1, 0, 0))}),
        bFirst \in BOOLEAN }

\* Projects whose lockfile has a nested second copy of b, a scoped package and
\* a package with an invalid name, which may require a, and whose manifest
\* names a under both sections and c, which may be missing from the lockfile.
LayoutProjects ==
    { [packageJson |->
          [dependencies    |-> << <<"a", Caret(V(1, 0, 0))>>, <<"B_d", Caret(V(1, 0, 0))>>,
                                  <<"@s/d", Caret(V(1, 0, 0))>>, <<"c", Caret(V(1, 0, 0))>> >>,
           devDependencies |-> IF inBoth THEN << <<"a", AtLeast(V(1, 0, 0))>> >> ELSE <<>>],
       packageLock |->
          <<RootPackage,
            Package(<<NodeModules, "a">>, V(1, 0, 0), EmptyObj, EmptyObj),
            Package(<<NodeModules, "b">>, V(1, 0, 0), bCon[1].dependencies, bCon[1].peerDependencies)>>
          \o (IF nested
              THEN <<Package(<<NodeModules, "c", NodeModules, "b">>, V(2, 0, 0),
                             bCon[2].dependencies, bCon[2].peerDependencies)>>
              ELSE <<>>)
          \o <<Package(<<NodeModules, "@s", "d">>, V(1, 0, 0), EmptyObj, EmptyObj),
               Package(<<NodeModules, "B_d">>, V(1, 0, 0),
                       IF bdRequires THEN ("a" :> Caret(V(1, 0, 0))) ELSE EmptyObj, EmptyObj)>>
          \o (IF cInstalled
              THEN <<Package(<<NodeModules, "c">>, V(1, 0, 0), EmptyObj, EmptyObj)>>
              ELSE <<>>),
       registry |-> [n \in {"a", "b", "c", "@s/d", "B_d"} |->
                        IF n = "a" THEN aLatest
                        ELSE IF n = "b" THEN unknown
                        ELSE V(2, 0, 0)]]
      : inBoth \in BOOLEAN,
        aLatest \in {unknown} \cup LatestVersions,
        bCon \in {q \in ConstraintsOn("a", {Caret(V(1, 0, 0))})
                        \X ConstraintsOn("a", {Caret(V(1, 0, 0))}) :
                      q[1].peerDependencies = EmptyObj /\ q[2].peerDependencies = EmptyObj},
        nested \in BOOLEAN,
        bdRequires \in BOOLEAN,
        cInstalled \in BOOLEAN }

Projects == GraphProjects \cup LayoutProjects

AnalyzeInit ==
    /\ \E project \in Projects :
           /\ packageJson = project.packageJson
           /\ packageLock = project.packageLock
           /\ registry = project.registry
           \* the two files hold the manifest and the lockfile above ("original"),
           \* or, for the layout projects, may be missing or unparsable
           /\ files \in IF project \in LayoutProjects
                         THEN [packageJson : {NoFile, "garbage", "original"},
                               packageLock : {NoFile, "garbage", "original"}]
                         ELSE {OriginalFiles}
    /\ UpdateRest
    /\ pc = "start"
    /\ requestedDependencies = <<>>
    /\ topLevelPackageNames = <<>>
    /\ topLevelLatestVersions = <<>>
    /\ initialPackagesMap = EmptyMap
    /\ potentiallyBlockedPackages = <<>>
    /\ transitivePackagesToFetch = <<>>
    /\ selectiveLatestVersions = <<>>
    /\ allPackagesMap = EmptyMap
    /\ allDependencies = <<>>
    /\ dependencyIndex = <<>>
    /\ reverseDependencyIndex = <<>>
    /\ depIdx = 0
    /\ safe = <<>>
    /\ blocked = <<>>
    /\ majorJump = <<>>
    /\ plan = NoPlan

(***************************************************************************)
(* The registry client (src/src/utils/registry.ts).  A lookup is one call  *)
(* of fetchLatestVersionWithRetry: a record                                *)
(*   [packageName, attempt, phase, version]                                *)
(* with phase "inflight" (awaiting fetch), "backoff" (awaiting the retry   *)
(* timer), "returned" or "rejected", and for the claims the fetch calls it *)
(* made (requests), the kind of each answer (outcomes), the time it        *)
(* started and the last lookup of its name that had returned by then       *)
(* (prior, a sequence of length 0 or 1).  The clock moves by Tick only, in *)
(* whole minutes: the waits of a lookup (a request is aborted after 10 s,  *)
(* the retry timers run 1 s, 2 s and 4 s plus a jitter under 1 s) are not  *)
(* measured on it.                                                         *)
(***************************************************************************)
CACHE_TTL_MS == 5 * 60 * 1000

maxRetries == 3

Min(a, b) == IF a <= b THEN a ELSE b

Max(a, b) == IF a >= b THEN a ELSE b

\* a limit without the clamp to 3..15
concurrencyLimit_Unclamped(n) == Max((n + 9) \div 10, 1)

\* Math.min(Math.max(Math.ceil(n / 10), 3), 15)
concurrencyLimit(n) == Min(Max((n + 9) \div 10, 3), 15)

\* !packageName || packageName.trim() === ''
IsBlank(packageName) == packageName \in {"", " "}

\* a cache check that takes the entries past the TTL for the fresh ones
CacheFresh_Expired(cache, packageName, t) ==
    /\ packageName \in DOMAIN cache
    /\ t - cache[packageName].timestamp > CACHE_TTL_MS

\* cached && Date.now() - cached.timestamp < CACHE_TTL_MS
CacheFresh(cache, packageName, t) ==
    /\ packageName \in DOMAIN cache
    /\ t - cache[packageName].timestamp < CACHE_TTL_MS

\* versionCache.set(packageName, { version, timestamp: Date.now() })
CacheSet(cache, packageName, version, t) ==
    [n \in DOMAIN cache \cup {packageName} |->
         IF n = packageName THEN [version |-> version, timestamp |-> t] ELSE cache[n]]

\* one turn of the retry loop up to its await: the cached version is returned,
\* or fetch is called
Attempt(lookup, cache, t) ==
    IF CacheFresh(cache, lookup.packageName, t)
    THEN [lookup EXCEPT !.phase = "returned",
                        !.version = cache[lookup.packageName].version]
    ELSE [lookup EXCEPT !.phase = "inflight", !.requests = @ + 1]

\* fetchLatestVersionWithRetry(packageName) up to its first await
fetchLatestVersionWithRetry(packageName, cache, t, history) ==
    LET lookup == [packageName |-> packageName,
                   attempt     |-> 0,
                   phase       |-> "returned",
                   version     |-> unknown,
                   requests    |-> 0,
                   outcomes    |-> <<>>,
                   started     |-> t,
                   prior       |-> IF packageName \in DOMAIN history
                                   THEN <<history[packageName]>> ELSE <<>>]
    IN  IF IsBlank(packageName) THEN lookup ELSE Attempt(lookup, cache, t)

\* what the registry may answer to a request: a body with a version, a body
\* without one, an HTTP error status, or no answer at all (status 0: fetch
\* rejects, on a network failure or on the abort of the 10 s timer)
RegistryVersions == {V(1, 0, 0), V(2, 0, 0)}

Responses ==
    {[status |-> 200, hasVersion |-> TRUE, version |-> v] : v \in RegistryVersions}
    \cup {[status |-> st, hasVersion |-> FALSE, version |-> unknown] :
              st \in {200, 404, 503, 0}}

\* response.ok
ResponseOk(response) == response.status \in 200..299

\* the message of the error the try block throws on the response
ErrorMessage(response) ==
    IF response.status = 0 THEN [text |-> "fetch failed", status |-> 0]
    ELSE IF ~ResponseOk(response) THEN [text |-> "HTTP", status |-> response.status]
    ELSE [text |-> "No version found in response", status |-> 0]

\* an error test that lets every error be retried
NonRetryable_Never(message) == FALSE

\* error.message.includes('HTTP 4') || error.message.includes('Invalid package name')
NonRetryable(message) ==
    \/ message.text = "HTTP" /\ message.status \div 100 = 4
    \/ message.text = "Invalid package name"

\* the catch block: break, wait for the next attempt, or leave the loop after
\* the last attempt; after the loop the lookup returns 'unknown'
Caught(lookup, message) ==
    IF NonRetryable(message) THEN [lookup EXCEPT !.phase = "returned"]
    ELSE IF lookup.attempt < maxRetries THEN [lookup EXCEPT !.phase = "backoff"]
    ELSE [lookup EXCEPT !.phase = "returned"]

\* the try block after await fetch(...), and the catch block on its error
Settle(lookup, response) ==
    IF ResponseOk(response) /\ response.hasVersion
    THEN [lookup EXCEPT !.phase = "returned", !.version = response.version]
    ELSE Caught(lookup, ErrorMessage(response))

\* packageNames.slice(i, i + concurrencyLimit), i counted from 1
Chunk(names, i) ==
    SubSeq(names, i, Min(i + concurrencyLimit(Len(names)) - 1, Len(names)))

\* chunk.map(async (packageName) => fetchLatestVersionWithRetry(packageName))
StartChunk(names, i, cache, t, history) ==
    [k \in 1..Len(Chunk(names, i)) |->
         fetchLatestVersionWithRetry(Chunk(names, i)[k], cache, t, history)]

RECURSIVE Collect_Resolved(_, _)
\* a collection that leaves the names without a version out of the map
Collect_Resolved(map, results) ==
    IF results = <<>> THEN map
    ELSE Collect_Resolved(
             IF results[1].version = unknown THEN map
             ELSE [n \in DOMAIN map \cup {results[1].packageName} |->
                       IF n = results[1].packageName THEN results[1].version ELSE map[n]],
             Tail(results))

RECURSIVE Collect(_, _)
\* results.forEach(({ packageName, version }) => versionMap.set(packageName, version))
Collect(map, results) ==
    IF results = <<>> THEN map
    ELSE Collect([n \in DOMAIN map \cup {results[1].packageName} |->
                      IF n = results[1].packageName THEN results[1].version ELSE map[n]],
                 Tail(results))

\* the kind of an answer, as the claims name it
OutcomeKind(response) ==
    IF ResponseOk(response) /\ response.hasVersion THEN "ok"
    ELSE IF response.status \in 400..499 THEN "client"
    ELSE "retryable"

\* the lookup returned the cached version: its last turn made no request
CacheHit(lookup) ==
    /\ lookup.phase = "returned"
    /\ ~IsBlank(lookup.packageName)
    /\ lookup.requests = lookup.attempt

\* the lookup got a version, from the registry or from the cache
Succeeded(lookup) ==
    \/ CacheHit(lookup)
    \/ lookup.outcomes # <<>> /\ lookup.outcomes[Len(lookup.outcomes)] = "ok"

RECURSIVE Noted(_, _, _)
\* the history with the lookups of a sequence that have returned
Noted(history, results, t) ==
    IF results = <<>> THEN history
    ELSE Noted(IF results[1].phase # "returned" THEN history
               ELSE [n \in DOMAIN history \cup {results[1].packageName} |->
                         IF n = results[1].packageName
                         THEN [version  |-> results[1].version,
                               at       |-> t,
                               fetched  |-> results[1].outcomes # <<>>
                                            /\ results[1].outcomes[Len(results[1].outcomes)] = "ok"]
                         ELSE history[n]],
               Tail(results), t)

\* the batches fetchLatestVersions is called with: none, one name, a name
\* twice, and a batch of two chunks with blank names
Batches ==
    {<<>>, <<"a">>, <<"a", "a">>, <<"", " ", "a", "b">>}

\* fetchLatestVersions(names) up to its first await: the chunks are cut and
\* the lookups of the first chunk are started
CallFetchLatestVersions ==
    /\ fpc # "running"
    /\ \E names \in Batches :
           /\ packageNames' = names
           /\ IF names = <<>>
              THEN /\ fpc' = "returned"
                   /\ lookups' = <<>>
              ELSE /\ fpc' = "running"
                   /\ lookups' = StartChunk(names, 1, versionCache, now, resolved)
    /\ chunkStart' = 1
    /\ versionMap' = <<>>
    /\ settled' = <<>>
    /\ resolved' = Noted(resolved, lookups', now)
    /\ UNCHANGED <<analyzeVars, updateVars, versionCache, now>>

\* the registry answers the request of a lookup, or the request fails
Respond ==
    /\ fpc = "running"
    /\ \E k \in 1..Len(lookups), response \in Responses :
           /\ lookups[k].phase = "inflight"
           /\ lookups' =
                  [lookups EXCEPT ![k] =
                       [Settle(lookups[k], response)
                            EXCEPT !.outcomes = Append(@, OutcomeKind(response))]]
           /\ versionCache' =
                  IF ResponseOk(response) /\ response.hasVersion
                  THEN CacheSet(versionCache, lookups[k].packageName,
                                response.version, now)
                  ELSE versionCache
           /\ resolved' = Noted(resolved, <<lookups'[k]>>, now)
    /\ UNCHANGED <<analyzeVars, updateVars, now, fpc, packageNames, chunkStart, versionMap,
                   settled>>

\* the retry timer of a lookup fires: the next turn of the loop
Retry ==
    /\ fpc = "running"
    /\ \E k \in 1..Len(lookups) :
           /\ lookups[k].phase = "backoff"
           /\ lookups' =
                  [lookups EXCEPT ![k] =
                       Attempt([lookups[k] EXCEPT !.attempt = @ + 1],
                               versionCache, now)]
           /\ resolved' = Noted(resolved, <<lookups'[k]>>, now)
    /\ UNCHANGED <<analyzeVars, updateVars, versionCache, now, fpc, packageNames, chunkStart,
                   versionMap, settled>>

\* await Promise.all(promises) resumes: the results are collected and the next
\* chunk is started, or the map is returned
ChunkSettled ==
    /\ fpc = "running"
    /\ \A k \in 1..Len(lookups) : lookups[k].phase \in {"returned", "rejected"}
    /\ IF \E k \in 1..Len(lookups) : lookups[k].phase = "rejected"
       THEN /\ fpc' = "rejected"
            /\ UNCHANGED <<versionMap, settled, chunkStart, lookups, resolved>>
       ELSE /\ versionMap' = Collect(versionMap, lookups)
            /\ settled' = settled \o [k \in 1..Len(lookups) |->
                                          [packageName |-> lookups[k].packageName,
                                           succeeded   |-> Succeeded(lookups[k])]]
            /\ chunkStart' = chunkStart + concurrencyLimit(Len(packageNames))
            /\ IF chunkStart' <= Len(packageNames)
               THEN /\ lookups' = StartChunk(packageNames, chunkStart', versionCache,
                                             now, resolved)
                    /\ resolved' = Noted(resolved, lookups', now)
                    /\ fpc' = "running"
               ELSE /\ lookups' = <<>>
                    /\ fpc' = "returned"
                    /\ UNCHANGED resolved
    /\ UNCHANGED <<analyzeVars, updateVars, versionCache, now, packageNames>>

\* clearVersionCache(), called between two batches
ClearVersionCache ==
    /\ fpc # "running"
    /\ versionCache # <<>>
    /\ versionCache' = <<>>
    /\ resolved' = <<>>
    /\ UNCHANGED <<analyzeVars, updateVars, now, fpc, packageNames, chunkStart, lookups,
                   versionMap, settled>>

\* time passes, half a TTL at a time
TickStep == CACHE_TTL_MS \div 2

Tick ==
    /\ now < MaxTicks * TickStep
    /\ now' = now + TickStep
    /\ UNCHANGED <<analyzeVars, updateVars, versionCache, fpc, packageNames, chunkStart,
                   lookups, versionMap, settled, resolved>>

RegistryNext ==
    \/ CallFetchLatestVersions
    \/ Respond
    \/ Retry
    \/ ChunkSettled
    \/ ClearVersionCache
    \/ Tick

\* the module just loaded: an empty cache, no call made
RegistryInit ==
    /\ versionCache = <<>>
    /\ now = 0
    /\ fpc = "idle"
    /\ packageNames = <<>>
    /\ chunkStart = 1
    /\ lookups = <<>>
    /\ versionMap = <<>>
    /\ settled = <<>>
    /\ resolved = <<>>

\* no analysis is run in SpecRegistry: analyze's variables stay as they are
\* before a call on an empty project
AnalyzeIdle ==
    /\ packageJson = [dependencies |-> <<>>, devDependencies |-> <<>>]
    /\ packageLock = <<>>
    /\ registry = <<>>
    /\ pc = "idle"
    /\ requestedDependencies = <<>>
    /\ topLevelPackageNames = <<>>
    /\ topLevelLatestVersions = <<>>
    /\ initialPackagesMap = EmptyMap
    /\ potentiallyBlockedPackages = <<>>
    /\ transitivePackagesToFetch = <<>>
    /\ selectiveLatestVersions = <<>>
    /\ allPackagesMap = EmptyMap
    /\ allDependencies = <<>>
    /\ dependencyIndex = <<>>
    /\ reverseDependencyIndex = <<>>
    /\ depIdx = 0
    /\ safe = <<>>
    /\ blocked = <<>>
    /\ majorJump = <<>>
    /\ plan = NoPlan

(***************************************************************************)
(* NpmManager.update, createBackup and restoreBackup                       *)
(* (src/src/managers/NpmManager.ts), with the validators and the test      *)
(* runner of src/src/utils/reporting.ts and the retention cleanup of       *)
(* src/src/utils/backup.ts.  A backup directory is a record                *)
(*   [path, packageJson, packageLock, info, created]:                      *)
(* its path (the timestamp in its name, here the rank of its creation),    *)
(* the content of its three files, and for the claims the project files    *)
(* at the moment it was created.  A finding of a validator is a record     *)
(* [package, reason, severity]; an error message of the result is a pair   *)
(* <<prefix or package, detail>>; a call is a pair <<command, argument>>.  *)
(***************************************************************************)
MaxBackups == 6       \* SpecUpdate: no run starts once so many backup directories exist

MaxSnapshots == 1     \* SpecBackup: createBackup is called at most so many times

Finding(package, reason, severity) ==
    [package |-> package, reason |-> reason, severity |-> severity]

HasErrors_AnyFinding(findings) == findings # <<>>

HasErrors(findings) == \E i \in 1..Len(findings) : findings[i].severity = "error"

Messages(findings) ==
    [i \in 1..Len(findings) |-> <<findings[i].package, findings[i].reason>>]

PostMessages(findings) ==
    [i \in 1..Len(findings) |-> <<"Post-update error", findings[i].package>>]

\* UpdateValidator.validatePreUpdateState; uncommitted: .git exists and
\* git status lists package.json or package-lock.json
validatePreUpdateState(f, uncommitted) ==
    IF ~fileExists(f.packageJson)
    THEN <<Finding("package.json", "package.json not found", "error")>>
    ELSE IF ~JSONParses(f.packageJson)
    THEN <<Finding("package.json", "Invalid JSON in package.json", "error")>>
    ELSE (IF ~fileExists(f.packageLock)
          THEN <<Finding("package-lock.json", "package-lock.json not found", "warning")>>
          ELSE <<>>)
         \o (IF uncommitted
             THEN <<Finding("git", "Uncommitted changes", "warning")>>
             ELSE <<>>)

validatePostUpdateState_Nothing(f) == <<>>

\* UpdateValidator.validatePostUpdateState
validatePostUpdateState(f) ==
    (IF ~fileExists(f.packageJson) \/ ~JSONParses(f.packageJson)
     THEN <<Finding("package.json", "package.json became invalid after update", "error")>>
     ELSE <<>>)
    \o (IF fileExists(f.packageLock) /\ ~JSONParses(f.packageLock)
        THEN <<Finding("package-lock.json", "package-lock.json became invalid after update",
                       "error")>>
        ELSE <<>>)

\* the name of the next backup directory
NextPath(bs) == IF bs = <<>> THEN 1 ELSE bs[Len(bs)].path + 1

BackupDir(path, manifest, lockfile, info, f) ==
    [path |-> path, packageJson |-> manifest, packageLock |-> lockfile, info |-> info,
     created |-> f]

\* NpmManager.createBackup on the project files f with the backup
\* directories bs on disk: [thrown, path, backups, calls]
createBackup_Unchecked(f, bs, mkdirOk) ==
    IF ~mkdirOk
    THEN [thrown |-> NoError, path |-> NextPath(bs), backups |-> bs, calls |-> {}]
    ELSE [thrown |-> NoError, path |-> NextPath(bs),
          backups |-> Append(bs, BackupDir(NextPath(bs), f.packageJson, f.packageLock,
                                           NoFile, f)),
          calls |-> {<<"mkdir", "backup">>, <<"writeFile", "backup/package.json">>,
                     <<"writeFile", "backup/package-lock.json">>}]

createBackup(f, bs, mkdirOk) ==
    IF ~mkdirOk
    THEN [thrown |-> wrapError(PlainError, "Failed to create backup"), path |-> NoPath,
          backups |-> bs, calls |-> {}]
    ELSE IF ~fileExists(f.packageJson)
    THEN [thrown |-> wrapError(PlainError, "Failed to create backup"), path |-> NoPath,
          backups |-> Append(bs, BackupDir(NextPath(bs), NoFile, NoFile, NoFile, f)),
          calls |-> {<<"mkdir", "backup">>}]
    ELSE IF ~fileExists(f.packageLock)
    THEN [thrown |-> wrapError(PlainError, "Failed to create backup"), path |-> NoPath,
          backups |-> Append(bs, BackupDir(NextPath(bs), utf8(f.packageJson), NoFile, NoFile, f)),
          calls |-> {<<"mkdir", "backup">>, <<"writeFile", "backup/package.json">>}]
    ELSE [thrown |-> NoError, path |-> NextPath(bs),
          backups |-> Append(bs, BackupDir(NextPath(bs), utf8(f.packageJson),
                                           utf8(f.packageLock), NoFile, f)),
          calls |-> {<<"mkdir", "backup">>, <<"writeFile", "backup/package.json">>,
                     <<"writeFile", "backup/package-lock.json">>}]

\* NpmManager.validateBackup: the error it throws, or NoError
validateBackup(b) ==
    IF ~fileExists(b.packageJson) /\ ~fileExists(b.packageLock)
    THEN PlainError
    ELSE IF fileExists(b.packageJson) /\ ~JSONParses(b.packageJson)
    THEN PlainError
    ELSE IF fileExists(b.packageLock) /\ ~JSONParses(b.packageLock)
    THEN PlainError
    ELSE IF fileExists(b.info) /\ ~JSONParses(b.info)
    THEN PlainError
    ELSE NoError

\* NpmManager.verifyRestoration: the error it throws, or NoError
verifyRestoration(f) ==
    IF ~fileExists(f.packageJson) /\ ~fileExists(f.packageLock)
    THEN PlainError
    ELSE IF fileExists(f.packageJson) /\ ~JSONParses(f.packageJson)
    THEN PlainError
    ELSE IF fileExists(f.packageLock) /\ ~JSONParses(f.packageLock)
    THEN PlainError
    ELSE NoError

\* NpmManager.restoreBackup of the directory b over the project files f:
\* [thrown, files, calls]
restoreBackup(b, f) ==
    IF validateBackup(b) # NoError
    THEN [thrown |-> wrapError(validateBackup(b), "Failed to restore backup"), files |-> f,
          calls |-> {}]
    ELSE IF ~fileExists(b.packageJson)
    THEN [thrown |-> wrapError(PlainError, "Failed to restore backup"), files |-> f,
          calls |-> {}]
    ELSE IF ~fileExists(b.packageLock)
    THEN [thrown |-> wrapError(PlainError, "Failed to restore backup"),
          files |-> [f EXCEPT !.packageJson = utf8(b.packageJson)],
          calls |-> {<<"writeFile", "package.json">>}]
    ELSE LET restored == [packageJson |-> utf8(b.packageJson),
                          packageLock |-> utf8(b.packageLock)]
         IN  [thrown |-> IF verifyRestoration(restored) # NoError
                         THEN wrapError(verifyRestoration(restored),
                                        "Failed to restore backup")
                         ELSE NoError,
              files |-> restored,
              calls |-> {<<"writeFile", "package.json">>,
                         <<"writeFile", "package-lock.json">>}]

\* BackupManager.listBackups: the directories whose backup-info.json is
\* there and parses, oldest first (the code sorts them newest first)
listBackups(bs) ==
    SelectSeq(bs, LAMBDA b : fileExists(b.info) /\ JSONParses(b.info))

\* BackupManager.cleanupBackups: the directories it leaves on disk
cleanupBackups(bs, keepCount) ==
    LET listed == listBackups(bs)
        toRemove == IF Len(listed) <= keepCount
                    THEN {}
                    ELSE {listed[i].path : i \in 1..(Len(listed) - keepCount)}
    IN  SelectSeq(bs, LAMBDA b : b.path \notin toRemove)

\* the inputs of update: the options, the packages of the plan that
\* previewUpdate returns, the findings of validateUpdates, what the test
\* script and the package manager do
OptionSets == [backup : BOOLEAN, dryRun : BOOLEAN, runTests : BOOLEAN]

Packages == {"a", "b"}

Plans == {<<"a">>, <<"a", "b">>}

ValidationFindings ==
    {<<>>,
     <<Finding("a", "Major version update may contain breaking changes", "warning")>>,
     <<Finding("a", "Update would break dependency requirement", "error")>>,
     <<Finding("a", "Update would break dependency requirement", "error"),
       Finding("a", "Major version update may contain breaking changes", "warning")>>}

GitStates == {"no repository", "clean", "uncommitted"}

TestOutcomes == {"no test script", "passed", "failed"}

\* npm install <name>@latest: whether the command succeeded and what it
\* left in package.json
InstallOutcomes ==
    {[ok |-> TRUE, manifest |-> "updated"], [ok |-> TRUE, manifest |-> "garbage"],
     [ok |-> FALSE, manifest |-> "unchanged"], [ok |-> FALSE, manifest |-> "garbage"]}

AfterInstall(f, outcome) ==
    IF outcome.manifest = "unchanged"
    THEN f
    ELSE [packageJson |-> outcome.manifest,
          packageLock |-> IF outcome.ok THEN "updated" ELSE f.packageLock]

RECURSIVE getDependents(_, _, _)
\* buildDependencyGraph(packageLock).getDependents(packageName): the names of
\* the lockfile entries that list packageName under dependencies or
\* peerDependencies, the name of an entry being what follows the last
\* 'node_modules/' of its path
getDependents(packages, packageName, acc) ==
    IF packages = <<>> THEN acc
    ELSE getDependents(Tail(packages), packageName,
             IF /\ packages[1].path # <<>>
                /\ packageName \in DOMAIN packages[1].dependencies
                                       \cup DOMAIN packages[1].peerDependencies
             THEN SetAdd(acc, extractPackageName(packages[1].path))
             ELSE acc)

RECURSIVE validateDependencyConflicts(_, _)
\* the loop of validateDependencyConflicts over the updates, both files being
\* there and parsed: an error per dependent whose entry, looked up at
\* node_modules/<dependent> or else at
\* node_modules/<dependent>/node_modules/<update.name>, has a range on the
\* update that the target version is outside of
validateDependencyConflicts(updates, packages) ==
    IF updates = <<>> THEN <<>>
    ELSE LET update == updates[1]
             Segments(name) == IF name = "@s/d" THEN <<"@s", "d">> ELSE <<name>>
             At(path) == {k \in 1..Len(packages) : packages[k].path = path}
             InfoAt(dependent) ==
                 IF At(<<NodeModules>> \o Segments(dependent)) # {}
                 THEN At(<<NodeModules>> \o Segments(dependent))
                 ELSE At(<<NodeModules>> \o Segments(dependent)
                             \o <<NodeModules>> \o Segments(update.name))
             Breaks(dependent) ==
                 \E k \in InfoAt(dependent) :
                     LET requiredRange ==
                             OrElse(Get(packages[k].dependencies, update.name),
                                    Get(packages[k].peerDependencies, update.name))
                     IN  /\ Truthy(requiredRange)
                         /\ ~semverSatisfies(update.targetVersion, requiredRange)
             broken == SelectSeq(getDependents(packages, update.name, <<>>), Breaks)
         IN  [i \in 1..Len(broken) |->
                  Finding(update.name, "Update would break dependency requirement", "error")]
             \o validateDependencyConflicts(Tail(updates), packages)

\* UpdateValidator.validateUpdates: validateUpdate on each update (the names
\* of a plan are valid and its versions parse; semver.gt throws on the latest
\* version 'unknown'), then the dependency conflicts, then
\* validateCompatibility (no name of the model is in an incompatible
\* combination)
validateUpdates(updates, packages, versions) ==
    LET invalid == SelectSeq(updates, LAMBDA u :
                       \/ versions[u.name] = unknown
                       \/ semverGt(u.targetVersion, versions[u.name]))
        majorUpdates == SelectSeq(updates, LAMBDA u : u.updateType = "major")
    IN  [i \in 1..Len(invalid) |->
             Finding(invalid[i].name,
                     IF versions[invalid[i].name] = unknown THEN "Validation failed"
                     ELSE "Version is newer than latest published version", "error")]
        \o validateDependencyConflicts(updates, packages)
        \o [i \in 1..Len(majorUpdates) |->
                Finding(majorUpdates[i].name,
                        "Major version update may contain breaking changes", "warning")]

\* update, from the plan previewUpdate returned to the end of the validation
\* of the selected updates (pre-update validation has passed)
ValidateSelection ==
    /\ pc = "previewed"
    /\ \E selectedPackages \in SUBSET {plan.packages[i].name : i \in 1..Len(plan.packages)} :
           LET selected == SelectSeq(plan.packages, LAMBDA p : p.name \in selectedPackages)
               validationErrors == validateUpdates(selected, packageLock, registry)
               criticalErrors == SelectSeq(validationErrors, LAMBDA e : e.severity = "error")
           IN  /\ selectedUpdates' = selected
               /\ IF Len(criticalErrors) > 0
                  THEN /\ result' = [result EXCEPT !.success = FALSE,
                                                   !.errors = Messages(criticalErrors)]
                       /\ upc' = "done"
                  ELSE /\ UNCHANGED result
                       /\ upc' = "backup"
    /\ pc' = "validated"
    /\ UNCHANGED <<registryVars, inputVars, stageVars, tableVars, bucketVars, plan,
                   files, backups, options, preValidationErrors, stages, calls,
                   thrown, lastOp>>

\* the catch of update (lines 642-646)
UpdateOperationFailed(r, error) ==
    [r EXCEPT !.success = FALSE,
              !.errors = Append(@, <<"Update operation failed", error.name>>)]

\* update is called: the result is initialised and the pre-update
\* validation runs
PreUpdateValidation ==
    /\ upc \in {"idle", "done"}
    /\ Len(backups) < MaxBackups
    /\ \E o \in OptionSets, git \in GitStates :
           LET errors == validatePreUpdateState(files, git = "uncommitted")
           IN  /\ options' = o
               /\ preValidationErrors' = errors
               /\ calls' = IF fileExists(files.packageJson) /\ JSONParses(files.packageJson)
                              /\ git # "no repository"
                           THEN {<<"exec", "git status">>}
                           ELSE {}
               /\ IF HasErrors(errors)
                  THEN /\ result' = [EmptyResult EXCEPT !.success = FALSE,
                                                        !.errors = Messages(errors)]
                       /\ upc' = "done"
                  ELSE /\ result' = EmptyResult
                       /\ upc' = "plan"
    /\ selectedUpdates' = <<>>
    /\ stages' = <<"preValidation">>
    /\ UNCHANGED <<analyzeVars, registryVars, files, backups, thrown, lastOp>>

\* previewUpdate, the selection and validateUpdates
PlanAndValidate ==
    /\ upc = "plan"
    /\ stages' = Append(stages, "plan")
    /\ IF LoadError(files) # NoError
       THEN /\ result' = UpdateOperationFailed(result, LoadError(files))
            /\ upc' = "done"
            /\ UNCHANGED selectedUpdates
       ELSE \E planned \in Plans, selectedPackages \in SUBSET Packages :
                LET selected == SelectSeq(planned, LAMBDA p : p \in selectedPackages)
                IN  \E validationErrors \in
                           IF selected = <<>> THEN {<<>>} ELSE ValidationFindings :
                        LET criticalErrors == SelectSeq(validationErrors, LAMBDA e : e.severity = "error")
                        IN  /\ selectedUpdates' = selected
                            /\ IF Len(criticalErrors) > 0
                               THEN /\ result' = [result EXCEPT
                                                     !.success = FALSE,
                                                     !.errors = Messages(criticalErrors)]
                                    /\ upc' = "done"
                               ELSE /\ UNCHANGED result
                                    /\ upc' = "backup"
    /\ UNCHANGED <<analyzeVars, registryVars, files, backups, options,
                   preValidationErrors, calls, thrown, lastOp>>

\* the backup, if enabled
BackupStep ==
    /\ upc = "backup"
    /\ IF options.backup
       THEN \E mkdirOk \in BOOLEAN :
                LET made == createBackup(files, backups, mkdirOk)
                IN  /\ stages' = Append(stages, "backup")
                    /\ backups' = made.backups
                    /\ calls' = calls \cup made.calls
                    /\ IF made.thrown # NoError
                       THEN /\ result' = UpdateOperationFailed(result, made.thrown)
                            /\ upc' = "done"
                       ELSE /\ result' = [result EXCEPT !.backupPath = made.path]
                            /\ upc' = "dryRun"
       ELSE /\ upc' = "dryRun"
            /\ UNCHANGED <<backups, calls, result, stages>>
    /\ UNCHANGED <<analyzeVars, registryVars, files, options, selectedUpdates,
                   preValidationErrors, thrown, lastOp>>

\* the dry run returns the selection
DryRunStep ==
    /\ upc = "dryRun"
    /\ IF options.dryRun
       THEN /\ result' = [result EXCEPT !.updated = selectedUpdates]
            /\ stages' = Append(stages, "dryRun")
            /\ upc' = "done"
       ELSE /\ upc' = "preTests"
            /\ UNCHANGED <<result, stages>>
    /\ UNCHANGED <<analyzeVars, registryVars, files, backups, options, selectedUpdates,
                   preValidationErrors, calls, thrown, lastOp>>

\* where update goes after the pre-update tests: if (!testResult.success) return
AfterPreTests_GoOn(outcome) == "apply"

AfterPreTests(outcome) == IF outcome = "failed" THEN "done" ELSE "apply"

\* TestRunner.runPreUpdateTests, if tests are enabled
PreUpdateTests ==
    /\ upc = "preTests"
    /\ IF options.runTests
       THEN \E outcome \in TestOutcomes :
                /\ stages' = Append(stages, "preTests")
                /\ calls' = IF outcome = "no test script"
                            THEN calls
                            ELSE calls \cup {<<"exec", "npm test">>}
                /\ result' = IF outcome = "failed"
                             THEN [result EXCEPT
                                      !.success = FALSE,
                                      !.errors = Append(@, <<"Pre-update tests failed",
                                                             "">>)]
                             ELSE result
                /\ upc' = AfterPreTests(outcome)
       ELSE /\ upc' = "apply"
            /\ UNCHANGED <<result, stages, calls>>
    /\ UNCHANGED <<analyzeVars, registryVars, files, backups, options, selectedUpdates,
                   preValidationErrors, thrown, lastOp>>

\* one iteration of the apply loop: updateSinglePackage and its catch
Applied_AlwaysUpdated(r, name, ok) ==
    IF ok
    THEN [r EXCEPT !.updated = Append(@, name)]
    ELSE [r EXCEPT !.updated = Append(@, name),
                   !.failed = Append(@, name),
                   !.errors = Append(@, <<"Failed to update", name>>)]

Applied_FailsRun(r, name, ok) ==
    IF ok
    THEN [r EXCEPT !.updated = Append(@, name)]
    ELSE [r EXCEPT !.success = FALSE,
                   !.failed = Append(@, name),
                   !.errors = Append(@, <<"Failed to update", name>>)]

Applied(r, name, ok) ==
    IF ok
    THEN [r EXCEPT !.updated = Append(@, name)]
    ELSE [r EXCEPT !.failed = Append(@, name),
                   !.errors = Append(@, <<"Failed to update", name>>)]

ApplyUpdate ==
    /\ upc = "apply"
    /\ stages' = IF stages[Len(stages)] = "apply" THEN stages ELSE Append(stages, "apply")
    /\ IF Len(result.updated) + Len(result.failed) < Len(selectedUpdates)
       THEN \E outcome \in InstallOutcomes :
                LET name == selectedUpdates[Len(result.updated) + Len(result.failed) + 1]
                IN  /\ calls' = calls \cup {<<"exec", "npm install @latest">>}
                    /\ files' = AfterInstall(files, outcome)
                    /\ result' = Applied(result, name, outcome.ok)
                    /\ upc' = "apply"
       ELSE /\ upc' = "postValidation"
            /\ UNCHANGED <<calls, files, result>>
    /\ UNCHANGED <<analyzeVars, registryVars, backups, options, selectedUpdates,
                   preValidationErrors, thrown, lastOp>>

\* the post-update validation
PostUpdateValidation ==
    /\ upc = "postValidation"
    /\ stages' = Append(stages, "postValidation")
    /\ LET postValidationErrors == validatePostUpdateState(files)
       IN  result' = IF HasErrors(postValidationErrors)
                     THEN [result EXCEPT
                              !.success = FALSE,
                              !.errors = @ \o PostMessages(postValidationErrors)]
                     ELSE result
    /\ upc' = "postTests"
    /\ UNCHANGED <<analyzeVars, registryVars, files, backups, options, selectedUpdates,
                   preValidationErrors, calls, thrown, lastOp>>

\* TestRunner.runPostUpdateTests, if tests are enabled and nothing failed
PostUpdateTests ==
    /\ upc = "postTests"
    /\ IF options.runTests /\ result.success
       THEN \E installed \in BOOLEAN, outcome \in TestOutcomes :
                /\ stages' = Append(stages, "postTests")
                /\ calls' = calls \cup {<<"exec", "npm install">>}
                                  \cup IF installed /\ outcome # "no test script"
                                       THEN {<<"exec", "npm test">>}
                                       ELSE {}
                /\ result' = IF installed /\ outcome # "failed"
                             THEN result
                             ELSE [result EXCEPT
                                      !.success = FALSE,
                                      !.errors = Append(@, <<"Post-update tests failed",
                                                             "">>)]
       ELSE UNCHANGED <<result, stages, calls>>
    /\ upc' = "cleanup"
    /\ UNCHANGED <<analyzeVars, registryVars, files, backups, options, selectedUpdates,
                   preValidationErrors, thrown, lastOp>>

\* BackupManager.cleanupBackups(5), then update returns
CleanupBackups ==
    /\ upc = "cleanup"
    /\ stages' = Append(stages, "cleanup")
    /\ backups' = cleanupBackups(backups, 5)
    /\ calls' = IF backups' = backups THEN calls ELSE calls \cup {<<"rm", "backup">>}
    /\ upc' = "done"
    /\ UNCHANGED <<analyzeVars, registryVars, files, options, selectedUpdates,
                   preValidationErrors, result, thrown, lastOp>>

\* BackupManager.createBackup, before the first run of update: a backup
\* directory with its backup-info.json
BackupManagerCreateBackup ==
    /\ upc = "idle"
    /\ Len(backups) < MaxBackups
    /\ backups' = Append(backups, BackupDir(NextPath(backups), utf8(files.packageJson),
                                            utf8(files.packageLock), "metadata", files))
    /\ UNCHANGED <<analyzeVars, registryVars, files, upc, options, selectedUpdates,
                   preValidationErrors, result, stages, calls, thrown, lastOp>>

UpdateNext ==
    \/ PreUpdateValidation
    \/ PlanAndValidate
    \/ BackupStep
    \/ DryRunStep
    \/ PreUpdateTests
    \/ ApplyUpdate
    \/ PostUpdateValidation
    \/ PostUpdateTests
    \/ CleanupBackups
    \/ BackupManagerCreateBackup

\* the project update is run on
UpdateInit ==
    /\ files \in [packageJson : {NoFile, "garbage", "original"},
                  packageLock : {NoFile, "garbage", "original"}]
    /\ UpdateRest

(***************************************************************************)
(* createBackup and restoreBackup called on their own, between edits of    *)
(* the project files.                                                      *)
(***************************************************************************)
CallCreateBackup ==
    /\ Len(backups) < MaxSnapshots
    /\ \E mkdirOk \in BOOLEAN :
           LET made == createBackup(files, backups, mkdirOk)
           IN  /\ backups' = made.backups
               /\ thrown' = made.thrown
               /\ calls' = made.calls
    /\ lastOp' = [op |-> "createBackup", path |-> NextPath(backups), before |-> files]
    /\ UNCHANGED <<analyzeVars, registryVars, files, upc, options, selectedUpdates,
                   preValidationErrors, result, stages>>

CallRestoreBackup ==
    /\ \E i \in 1..Len(backups) :
           LET restored == restoreBackup(backups[i], files)
           IN  /\ files' = restored.files
               /\ thrown' = restored.thrown
               /\ calls' = restored.calls
               /\ lastOp' = [op |-> "restoreBackup", path |-> backups[i].path,
                             before |-> files]
    /\ UNCHANGED <<analyzeVars, registryVars, backups, upc, options, selectedUpdates,
                   preValidationErrors, result, stages>>

\* the user, or the package manager, rewrites or deletes a project file
EditFiles ==
    /\ \E f \in [packageJson : FileStates,
                  packageLock : {"original", "updated", NoFile}] :
           /\ f # files
           /\ files' = f
    /\ thrown' = NoError
    /\ calls' = {}
    /\ lastOp' = [op |-> "edit", path |-> NoPath, before |-> files]
    /\ UNCHANGED <<analyzeVars, registryVars, backups, upc, options, selectedUpdates,
                   preValidationErrors, result, stages>>

BackupNext ==
    \/ CallCreateBackup
    \/ CallRestoreBackup
    \/ EditFiles

Init == AnalyzeInit /\ RegistryInit

Next == AnalyzeNext \/ ValidateSelection

Spec == Init /\ [][Next]_vars

InitRegistry == AnalyzeIdle /\ RegistryInit /\ UpdateIdle

NextRegistry == RegistryNext

SpecRegistry == InitRegistry /\ [][NextRegistry]_vars

InitUpdate == AnalyzeIdle /\ RegistryInit /\ UpdateInit

SpecUpdate == InitUpdate /\ [][UpdateNext]_vars

InitBackup == AnalyzeIdle /\ RegistryInit /\ UpdateIdle

SpecBackup == InitBackup /\ [][BackupNext]_vars

(***************************************************************************)
(* The report, as the claims read it.                                      *)
(***************************************************************************)
Done == pc = "done"

NamesIn(bucket) == {bucket[i].name : i \in 1..Len(bucket)}

InNoBucket(name) ==
    name \notin NamesIn(safe) \cup NamesIn(blocked) \cup NamesIn(majorJump)

\* the records of the top-level dependencies
TopLevel == SeqToSet(allDependencies)

\* the records of the package table
Records == {allPackagesMap.val[n] : n \in DOMAIN allPackagesMap.val}

\* the installed packages: the lockfile's entries but the root
Installed == {packageLock[i] : i \in {k \in 1..Len(packageLock) : packageLock[k].path # <<>>}}

\* the ranges a package declares on depName, under dependencies or peerDependencies
DeclaredRanges(package, depName) ==
    {r \in {Get(package.dependencies, depName), Get(package.peerDependencies, depName)} :
         Truthy(r)}

\* some range the package declares on dep rejects dep's latest version
RejectsLatest(package, dep) ==
    \E r \in DeclaredRanges(package, dep.name) : ~semverSatisfies(dep.latest, r)

\* the range of a package on depName that counts: its dependency range, its
\* peer range when it has no dependency range
EffectiveRanges(package, depName) ==
    IF Truthy(Get(package.dependencies, depName))
    THEN {Get(package.dependencies, depName)}
    ELSE {r \in {Get(package.peerDependencies, depName)} : Truthy(r)}

EffectivelyRejectsLatest(package, dep) ==
    \E r \in EffectiveRanges(package, dep.name) : ~semverSatisfies(dep.latest, r)

OnlyBlocked(name) ==
    /\ name \in NamesIn(blocked)
    /\ name \notin NamesIn(safe)
    /\ name \notin NamesIn(majorJump)

(***************************************************************************)
(* C1 as stated: a top-level dependency whose latest version is resolved   *)
(* and rejected by a range that some installed package declares on it      *)
(* (dependency or peer-dependency range) is in blocked, and in neither     *)
(* safe nor majorJump.                                                     *)
(***************************************************************************)
C1_AnyDeclaredRangeBlocks ==
    Done =>
        \A dep \in TopLevel :
            (dep.latest # unknown /\ \E package \in Installed : RejectsLatest(package, dep))
                => OnlyBlocked(dep.name)

(***************************************************************************)
(* C1, amended: a top-level dependency whose latest version is resolved    *)
(* and rejected by the effective range of some record of the package       *)
(* table (its dependency range on it, or its peer range when it declares   *)
(* no dependency range) is in blocked, and in neither safe nor majorJump,  *)
(* whatever the size of the version jump.                                  *)
(***************************************************************************)
C1_BlockerPrecedence ==
    Done =>
        \A dep \in TopLevel :
            (dep.latest # unknown
                /\ \E package \in Records : EffectivelyRejectsLatest(package, dep))
                => OnlyBlocked(dep.name)

\* a blocked dependency that would be a major jump, and one that is up to date
C1_Witness ==
    /\ Done
    /\ \E dep \in TopLevel :
           /\ dep.name \in NamesIn(blocked)
           /\ semverMajor(dep.latest) > semverMajor(dep.resolved)
    /\ \E dep \in TopLevel :
           /\ dep.name \in NamesIn(blocked)
           /\ dep.latest = dep.resolved

(***************************************************************************)
(* C2: a top-level dependency with a resolved latest version is in none of *)
(* safe, blocked and majorJump if and only if its resolved version is      *)
(* greater than or equal to its latest version.                            *)
(***************************************************************************)
C2_NoBucketIffCurrent ==
    Done =>
        \A dep \in TopLevel :
            dep.latest # unknown =>
                (InNoBucket(dep.name) <=> semverGte(dep.resolved, dep.latest))

(***************************************************************************)
(* C3: every name occurs at most once across safe, blocked and majorJump:  *)
(* no bucket lists a name twice and no two buckets share a name.           *)
(***************************************************************************)
C3_BucketsDisjoint ==
    Len(safe) + Len(blocked) + Len(majorJump)
        = Cardinality(NamesIn(safe) \cup NamesIn(blocked) \cup NamesIn(majorJump))

\* a finished report with an entry in each of the three buckets
C3_Witness ==
    /\ Done
    /\ Len(safe) > 0
    /\ Len(blocked) > 0
    /\ Len(majorJump) > 0

(***************************************************************************)
(* C4: a package whose latest version is unknown is in none of the three   *)
(* buckets and is never the blocker of an entry of blocked.                *)
(***************************************************************************)
C4_UnknownNeitherListedNorBlocker ==
    Done =>
        \A package \in Records :
            package.latest = unknown =>
                /\ InNoBucket(package.name)
                /\ \A i \in 1..Len(blocked) : blocked[i].blocker # package.name

(***************************************************************************)
(* C5 as stated: the blocker of an entry of blocked is an installed        *)
(* package that declares a range on the entry which the entry's latest     *)
(* version does not satisfy, and no package before it in the reverse       *)
(* index declares such a range.                                            *)
(***************************************************************************)
C5_FirstDeclaredViolator ==
    \A i \in 1..Len(blocked) :
        LET dep == blocked[i]
            requiredBy == RequiredBy(reverseDependencyIndex, dep.name)
        IN  /\ \E package \in Installed :
                   /\ extractPackageName(package.path) = dep.blocker
                   /\ RejectsLatest(package, dep)
            /\ \E k \in 1..Len(requiredBy) :
                   /\ requiredBy[k] = dep.blocker
                   /\ \A j \in 1..(k - 1) :
                          ~RejectsLatest(allPackagesMap.val[requiredBy[j]], dep)

(***************************************************************************)
(* C5, amended: the blocker of an entry of blocked is an installed package *)
(* whose effective range on the entry (its dependency range, or its peer   *)
(* range when it declares no dependency range) rejects the entry's latest  *)
(* version, and it is the first package of the reverse index's list for    *)
(* the entry whose effective range does.                                   *)
(***************************************************************************)
C5_FirstViolatorWins ==
    \A i \in 1..Len(blocked) :
        LET dep == blocked[i]
            requiredBy == RequiredBy(reverseDependencyIndex, dep.name)
        IN  /\ \E package \in Installed :
                   /\ extractPackageName(package.path) = dep.blocker
                   /\ EffectivelyRejectsLatest(package, dep)
            /\ \E k \in 1..Len(requiredBy) :
                   /\ requiredBy[k] = dep.blocker
                   /\ EffectivelyRejectsLatest(allPackagesMap.val[requiredBy[k]], dep)
                   /\ \A j \in 1..(k - 1) :
                          ~EffectivelyRejectsLatest(allPackagesMap.val[requiredBy[j]], dep)

\* an entry with two violators in the reverse index's list, blocked by the first
C5_Witness ==
    /\ Done
    /\ \E i \in 1..Len(blocked) :
           LET requiredBy == RequiredBy(reverseDependencyIndex, blocked[i].name)
           IN  /\ Len(requiredBy) = 2
               /\ blocked[i].blocker = requiredBy[1]
               /\ EffectivelyRejectsLatest(allPackagesMap.val[requiredBy[2]], blocked[i])

(***************************************************************************)
(* C7: a top-level dependency that is not blocked and whose resolved       *)
(* version is lower than its latest version is in majorJump exactly when   *)
(* the major component of latest is greater than that of resolved, and in  *)
(* safe otherwise.                                                         *)
(***************************************************************************)
C7_MajorJumpOrSafe ==
    Done =>
        \A dep \in TopLevel :
            (/\ dep.latest # unknown
             /\ dep.name \notin NamesIn(blocked)
             /\ semverGt(dep.latest, dep.resolved))
                => IF semverMajor(dep.latest) > semverMajor(dep.resolved)
                   THEN dep.name \in NamesIn(majorJump) /\ dep.name \notin NamesIn(safe)
                   ELSE dep.name \in NamesIn(safe) /\ dep.name \notin NamesIn(majorJump)

(***************************************************************************)
(* analyze as a function of the manifest and the lockfile (the registry's  *)
(* answers being those of the run), to compare two projects.               *)
(***************************************************************************)
RECURSIVE Classification(_, _, _)
\* the <<name, bucket, blocker>> of every top-level dependency the loop of
\* step 11 pushes to a bucket
Classification(depNames, table, reverse) ==
    IF depNames = <<>> THEN {}
    ELSE LET rest == Classification(Tail(depNames), table, reverse)
         IN  IF ~MapHas(table, depNames[1]) THEN rest
             ELSE LET dep == table.val[depNames[1]]
                      found == FoundBlockerName(RequiredBy(reverse, dep.name), dep, table)
                      bucket == BucketOf(dep, found)
                  IN  IF bucket = "none" THEN rest
                      ELSE {<<dep.name, bucket, found>>} \cup rest

\* the classification analyze computes when fetchLatestVersions answers
\* versions[name] for every name it is asked
ReportWith(manifest, packages, versions) ==
    LET requested == Spread(manifest.dependencies, manifest.devDependencies)
        names == SelectNames(ObjKeys(requested),
                             {n \in SeqToSet(ObjKeys(requested)) : isValidPackageName(n)})
        topLevel == [n \in SeqToSet(names) |-> versions[n]]
        initial == InitialPackages(packages, requested, topLevel, EmptyMap)
        potentially == PotentiallyBlocked(ObjKeys(requested), initial)
        transitive == IF Len(potentially) > 0
                      THEN TransitiveToFetch(packages, requested, potentially, <<>>)
                      ELSE <<>>
        selective == IF Len(transitive) > 0
                     THEN [n \in SeqToSet(transitive) |-> versions[n]] @@ topLevel
                     ELSE topLevel
        table == AllPackages(packages, requested, selective, EmptyMap)
    IN  Classification(ObjKeys(requested), table, ReverseDependencyIndexOf(table))

ReportOf(manifest, packages) == ReportWith(manifest, packages, registry)

\* the <<name, bucket, blocker>> triples of the report in the state
Reported ==
    {<<safe[i].name, "safe", NoBlocker>> : i \in 1..Len(safe)}
    \cup {<<majorJump[i].name, "majorJump", NoBlocker>> : i \in 1..Len(majorJump)}
    \cup {<<blocked[i].name, "blocked", blocked[i].blocker>> : i \in 1..Len(blocked)}

\* the package with every range it declares under peerDependencies only
\* declared under dependencies instead
PeerOnlyAsDependency(package) ==
    LET peerOnly == {t \in DOMAIN package.peerDependencies :
                         t \notin DOMAIN package.dependencies}
    IN  Package(package.path, package.version,
                [t \in DOMAIN package.dependencies \cup peerOnly |->
                     IF t \in peerOnly THEN package.peerDependencies[t]
                     ELSE package.dependencies[t]],
                [t \in DOMAIN package.peerDependencies \ peerOnly |->
                     package.peerDependencies[t]])

\* the package with every range it declares under dependencies only declared
\* under peerDependencies instead
DependencyOnlyAsPeer(package) ==
    LET depOnly == {t \in DOMAIN package.dependencies :
                        t \notin DOMAIN package.peerDependencies}
    IN  Package(package.path, package.version,
                [t \in DOMAIN package.dependencies \ depOnly |->
                     package.dependencies[t]],
                [t \in DOMAIN package.peerDependencies \cup depOnly |->
                     IF t \in depOnly THEN package.dependencies[t]
                     ELSE package.peerDependencies[t]])

(***************************************************************************)
(* C6: a range declared under peerDependencies only blocks as the same     *)
(* range declared under dependencies does: moving every peer-only range of *)
(* the lockfile to dependencies, or every dependency-only range to         *)
(* peerDependencies, leaves the bucket and the blocker of every top-level  *)
(* dependency unchanged.                                                   *)
(***************************************************************************)
C6_PeerRangeBlocksAlike ==
    Done =>
        /\ Reported = ReportOf(packageJson,
                               [k \in 1..Len(packageLock) |-> PeerOnlyAsDependency(packageLock[k])])
        /\ Reported = ReportOf(packageJson,
                               [k \in 1..Len(packageLock) |-> DependencyOnlyAsPeer(packageLock[k])])

\* an entry blocked by a package that declares its range on it under
\* peerDependencies only
C6_Witness ==
    /\ Done
    /\ \E i \in 1..Len(blocked) :
           LET blocker == allPackagesMap.val[blocked[i].blocker]
           IN  /\ blocked[i].name \in DOMAIN blocker.peerDependencies
               /\ blocked[i].name \notin DOMAIN blocker.dependencies

(***************************************************************************)
(* The lookups, as the claims read them.  Every lookup of a call is in     *)
(* lookups from its start until the call collects its chunk.               *)
(***************************************************************************)
\* the lookup started less than a TTL after the last lookup of its name returned
WithinTTLOfPrior(lookup) ==
    /\ lookup.prior # <<>>
    /\ lookup.started - lookup.prior[1].at < CACHE_TTL_MS

(***************************************************************************)
(* C8 as stated: a lookup of a name that starts less than the cache TTL    *)
(* (5 minutes) after a lookup of the same name returned a version makes no *)
(* request and returns the version the first one returned.                 *)
(***************************************************************************)
C8_SecondResolutionCached ==
    \A k \in 1..Len(lookups) :
        (WithinTTLOfPrior(lookups[k]) /\ lookups[k].prior[1].version # unknown) =>
            /\ lookups[k].requests = 0
            /\ lookups[k].phase = "returned"
            /\ lookups[k].version = lookups[k].prior[1].version

(***************************************************************************)
(* C8, amended: when the last lookup of a name to return got its version   *)
(* from the registry (its request succeeded), and the cache has not been   *)
(* cleared since, a lookup of that name that starts less than the cache    *)
(* TTL (5 minutes) after it returned makes no request and returns the same *)
(* version.                                                                *)
(***************************************************************************)
C8_FetchedVersionCached ==
    \A k \in 1..Len(lookups) :
        (WithinTTLOfPrior(lookups[k]) /\ lookups[k].prior[1].fetched) =>
            /\ lookups[k].requests = 0
            /\ lookups[k].phase = "returned"
            /\ lookups[k].version = lookups[k].prior[1].version

\* a lookup that started some time after a lookup of its name had fetched a
\* version, within the TTL, and returned that version
C8_Witness ==
    \E k \in 1..Len(lookups) :
        /\ WithinTTLOfPrior(lookups[k])
        /\ lookups[k].prior[1].fetched
        /\ lookups[k].started > lookups[k].prior[1].at
        /\ lookups[k].phase = "returned"
        /\ lookups[k].version \in RegistryVersions

(***************************************************************************)
(* C9: a call of fetchLatestVersions never rejects; when it returns, every *)
(* lookup of the batch has been collected, every requested name has an     *)
(* entry in the returned map, and the entry of a name is 'unknown' exactly *)
(* when its (last) lookup got no version.                                  *)
(***************************************************************************)
C9_EveryNameAnswered ==
    /\ fpc # "rejected"
    /\ fpc = "returned" =>
           /\ Len(settled) = Len(packageNames)
           /\ DOMAIN versionMap = {packageNames[i] : i \in 1..Len(packageNames)}
           /\ \A i \in 1..Len(packageNames) :
                  /\ settled[i].packageName = packageNames[i]
                  /\ (\A j \in (i + 1)..Len(packageNames) : packageNames[j] # packageNames[i])
                         => (versionMap[packageNames[i]] = unknown <=> ~settled[i].succeeded)

\* a returned batch of two chunks with a name whose requests all failed, a
\* name that got its version and a blank name
C9_Witness ==
    /\ fpc = "returned"
    /\ Len(packageNames) > concurrencyLimit(Len(packageNames))
    /\ \E i, j, k \in 1..Len(packageNames) :
           /\ ~IsBlank(packageNames[i]) /\ versionMap[packageNames[i]] = unknown
           /\ versionMap[packageNames[j]] \in RegistryVersions
           /\ IsBlank(packageNames[k]) /\ versionMap[packageNames[k]] = unknown

(***************************************************************************)
(* C10: a lookup makes at most maxRetries + 1 = 4 requests; an answer with *)
(* a version or an HTTP 4xx answer is the last answer of its lookup, which *)
(* returns without another request (one request in all when it is the      *)
(* first answer); a lookup that returns without a version after retryable  *)
(* failures only has made exactly 4 requests.                              *)
(***************************************************************************)
C10_RequestsBounded ==
    /\ maxRetries + 1 = 4
    /\ \A k \in 1..Len(lookups) :
           LET lookup == lookups[k]
               outcomes == lookup.outcomes
           IN  /\ lookup.requests <= maxRetries + 1
               /\ \A j \in 1..Len(outcomes) :
                      outcomes[j] \in {"ok", "client"} =>
                          /\ j = Len(outcomes)
                          /\ lookup.phase = "returned"
                          /\ lookup.requests = j
               /\ (/\ lookup.phase = "returned"
                   /\ ~IsBlank(lookup.packageName)
                   /\ ~Succeeded(lookup)
                   /\ \A j \in 1..Len(outcomes) : outcomes[j] = "retryable")
                      => lookup.requests = maxRetries + 1

\* two lookups of one chunk: one returned after a single request answered
\* with HTTP 4xx, one after four requests that all failed
C10_Witness ==
    \E k1, k2 \in 1..Len(lookups) :
        /\ lookups[k1].phase = "returned"
        /\ lookups[k1].outcomes = <<"client">>
        /\ lookups[k1].requests = 1
        /\ lookups[k2].phase = "returned"
        /\ lookups[k2].outcomes = <<"retryable", "retryable", "retryable", "retryable">>
        /\ lookups[k2].requests = 4
        /\ lookups[k2].version = unknown

(***************************************************************************)
(* The update workflow, as the claims read it.                             *)
(***************************************************************************)
UpdateDone == upc = "done"

\* the place of a stage in the order of the statements of update
Rank(stage) ==
    CASE stage = "preValidation" -> 1
      [] stage = "plan" -> 2
      [] stage = "backup" -> 3
      [] stage = "dryRun" -> 4
      [] stage = "preTests" -> 5
      [] stage = "apply" -> 6
      [] stage = "postValidation" -> 7
      [] stage = "postTests" -> 8
      [] stage = "cleanup" -> 9

PackageManagerCalls == {c \in calls : c[2] \in {"npm install", "npm install @latest"}}

TestCalls == {c \in calls : c[2] = "npm test"}

FileWrites == {c \in calls : c[1] \in {"mkdir", "writeFile", "rm"}}

\* the backup of this run is on disk, a full copy of the project files as
\* they were when it was made
BackupCreated ==
    /\ result.backupPath # NoPath
    /\ \E i \in 1..Len(backups) :
           /\ backups[i].path = result.backupPath
           /\ backups[i].packageJson = backups[i].created.packageJson
           /\ backups[i].packageLock = backups[i].created.packageLock
           /\ fileExists(backups[i].packageJson)
           /\ fileExists(backups[i].packageLock)

ApplyStarted == \E i \in 1..Len(stages) : stages[i] = "apply"

\* C11: the stages a run of update has entered are in the order
\* pre-validation, (plan,) backup, (dry-run exit,) pre-update tests, apply,
\* post-update validation, post-update tests, cleanup, none of them twice;
\* and once the apply stage has started with the backup option on, this
\* run's backup is on disk, complete.
C11_StagesInOrder ==
    /\ \A i, j \in 1..Len(stages) : i < j => Rank(stages[i]) < Rank(stages[j])
    /\ (ApplyStarted /\ options.backup) => BackupCreated

C11_Witness ==
    /\ UpdateDone
    /\ stages = <<"preValidation", "plan", "backup", "preTests", "apply",
                  "postValidation", "postTests", "cleanup">>
    /\ options.backup
    /\ Len(result.updated) = 2

\* the findings of error severity the pre-update validation reported
PreValidationFailed ==
    \E i \in 1..Len(preValidationErrors) : preValidationErrors[i].severity = "error"

\* C12: once the pre-update validation has reported a finding of error
\* severity, update has returned an unsuccessful result and has entered no
\* later stage, created no backup, run no test and invoked no package
\* manager; when it has reported none (warnings or nothing), update goes on
\* to plan the selected updates.
C12_ErrorsStopWarningsDoNot ==
    upc # "idle" =>
        IF PreValidationFailed
        THEN /\ UpdateDone
             /\ ~result.success
             /\ result.errors # <<>>
             /\ stages = <<"preValidation">>
             /\ result.backupPath = NoPath
             /\ FileWrites = {}
             /\ TestCalls = {}
             /\ PackageManagerCalls = {}
             /\ result.updated = <<>> /\ result.failed = <<>>
        ELSE upc = "plan" \/ (Len(stages) >= 2 /\ stages[2] = "plan")

C12_Witness ==
    /\ UpdateDone
    /\ PreValidationFailed
    /\ ~result.success
    /\ files.packageJson = "garbage"
    /\ Len(backups) > 0

PreTestsFailed ==
    \E i \in 1..Len(result.errors) : result.errors[i][1] = "Pre-update tests failed"

NothingApplied ==
    /\ ~ApplyStarted
    /\ PackageManagerCalls = {}
    /\ result.updated = <<>>
    /\ result.failed = <<>>

\* C13 as stated: when the pre-update tests have failed, update has returned
\* a failed result, no backup has been created and no package applied.
C13_FailedTestsNoBackupNoApply ==
    PreTestsFailed =>
        /\ UpdateDone
        /\ ~result.success
        /\ result.backupPath = NoPath
        /\ {c \in FileWrites : c[1] = "mkdir"} = {}
        /\ NothingApplied

\* C13, amended: when the pre-update tests have failed, update has returned
\* a failed result with the pre-update tests as its last stage and no
\* package applied; the backup is made before the tests run, so with the
\* backup option on this run's backup is on disk, and with it off there is
\* none.
C13_FailedTestsNoApply ==
    PreTestsFailed =>
        /\ UpdateDone
        /\ ~result.success
        /\ stages[Len(stages)] = "preTests"
        /\ NothingApplied
        /\ IF options.backup THEN BackupCreated ELSE result.backupPath = NoPath

C13_Witness ==
    /\ PreTestsFailed
    /\ UpdateDone
    /\ options.backup
    /\ BackupCreated
    /\ selectedUpdates = <<"a", "b">>

\* C14: in a run of update with the dry-run option, no package manager is
\* invoked, no test is run and no file or directory is written; a run that
\* reaches the dry-run exit returns the selected updates as result.updated.
C14_DryRunMutatesNothing ==
    (upc # "idle" /\ options.dryRun) =>
        /\ PackageManagerCalls = {}
        /\ TestCalls = {}
        /\ FileWrites = {}
        /\ (UpdateDone /\ result.success) => result.updated = selectedUpdates

ApplyFinished == ApplyStarted /\ upc # "apply"

UpdatedNames == {result.updated[i] : i \in 1..Len(result.updated)}

FailedNames == {result.failed[i] : i \in 1..Len(result.failed)}

\* C15: in the apply stage the packages handled so far are the first ones of
\* the selection, each in exactly one of updated and failed, and each failed
\* one with its message in errors; once the apply stage is over every
\* selected package has been handled, whatever failed before it.
C15_EachSelectedUpdatedOrFailed ==
    ApplyStarted =>
        LET handled == Len(result.updated) + Len(result.failed)
        IN  /\ handled <= Len(selectedUpdates)
            /\ UpdatedNames \cup FailedNames =
                   {selectedUpdates[i] : i \in 1..handled}
            /\ UpdatedNames \cap FailedNames = {}
            /\ Cardinality(UpdatedNames) = Len(result.updated)
            /\ Cardinality(FailedNames) = Len(result.failed)
            /\ \A n \in FailedNames :
                   \E j \in 1..Len(result.errors) :
                       result.errors[j] = <<"Failed to update", n>>
            /\ ApplyFinished => handled = Len(selectedUpdates)

C15_Witness ==
    /\ ApplyFinished
    /\ selectedUpdates = <<"a", "b">>
    /\ result.failed = <<"a">>
    /\ result.updated = <<"b">>

IsPrefix(s, t) == Len(s) <= Len(t) /\ \A i \in 1..Len(s) : s[i] = t[i]

HasMessage(errors, prefix) == \E i \in 1..Len(errors) : errors[i][1] = prefix

\* a project file the post-update validation rejects
BrokenAfterApply(f) ==
    \/ f.packageJson \in {NoFile, "garbage"}
    \/ f.packageLock = "garbage"

\* what a step of update from the post-update validation on does
PostStageStep ==
    upc \in {"postValidation", "postTests", "cleanup"} =>
        /\ files' = files
        /\ {c \in calls' : c[1] = "writeFile"} = {c \in calls : c[1] = "writeFile"}
        /\ IsPrefix(result.errors, result'.errors)
        /\ ~result.success => ~result'.success
        /\ (upc = "postValidation" /\ BrokenAfterApply(files)) =>
               (~result'.success /\ HasMessage(result'.errors, "Post-update error"))
        /\ HasMessage(result'.errors, "Post-update tests failed") => ~result'.success
        /\ result'.updated = result.updated /\ result'.failed = result.failed

Restored == lastOp.op = "restoreBackup"

\* the backup directory the last restoreBackup was given
RestoredFrom == CHOOSE b \in {backups[i] : i \in 1..Len(backups)} : b.path = lastOp.path

\* C17: when restoreBackup(b) has returned without an error, package.json
\* and package-lock.json hold what they held when b was created; so
\* createBackup followed by restoreBackup leaves both as they were.
C17_RestoreReproducesBackup ==
    (Restored /\ thrown = NoError) =>
        /\ files = RestoredFrom.created
        /\ lastOp.before = RestoredFrom.created => files = lastOp.before

\* the integrity check as the claim words it: at least one of the two
\* files is in the backup, and every one that is there parses
PassesIntegrityCheck(b) ==
    /\ fileExists(b.packageJson) \/ fileExists(b.packageLock)
    /\ fileExists(b.packageJson) => JSONParses(b.packageJson)
    /\ fileExists(b.packageLock) => JSONParses(b.packageLock)

\* C18: after restoreBackup(b), if b fails the integrity check the project
\* files are as they were before the call and an error was raised; if b
\* passes it, the call returned without an error.
C18_RestoreOnlyAfterIntegrityCheck ==
    Restored =>
        IF PassesIntegrityCheck(RestoredFrom)
        THEN thrown = NoError
        ELSE files = lastOp.before /\ thrown # NoError

CleanedUp == UpdateDone /\ stages[Len(stages)] = "cleanup"

\* C19: when a run of update has gone through its cleanup step, at most 5
\* backup directories are on disk, they are the most recently created ones,
\* and the backup this run took is among them.
C19_AtMostFiveNewestBackups ==
    CleanedUp =>
        /\ Len(backups) <= 5
        /\ \A i \in 1..Len(backups) :
               backups[i].path = backups[Len(backups)].path - (Len(backups) - i)
        /\ options.backup => \E i \in 1..Len(backups) : backups[i].path = result.backupPath

\* the first load step of analyze that fails on these files
FirstFailingStep(f) ==
    IF f.packageJson = NoFile THEN "manifest read"
    ELSE IF f.packageJson = "garbage" THEN "manifest parse"
    ELSE IF f.packageLock = NoFile THEN "lockfile read"
    ELSE IF f.packageLock = "garbage" THEN "lockfile parse"
    ELSE "none"

NoRegistryLookup ==
    /\ topLevelLatestVersions = <<>>
    /\ selectiveLatestVersions = <<>>

\* C20: analyze fails with the error kind of the first load step that fails,
\* in the order manifest read, manifest parse, lockfile read, lockfile parse:
\* a file that cannot be read gives a file-system error, an unparsable
\* manifest a malformed-manifest error whatever the lockfile is, an
\* unparsable lockfile a malformed-lockfile error; and then no registry
\* lookup has been made.
C20_FirstFailingLoadStepDecides ==
    (pc = "failed") =>
        /\ thrown.name = CASE FirstFailingStep(files) = "manifest read" -> "FileSystemError"
                            [] FirstFailingStep(files) = "manifest parse" -> "MalformedPackageJsonError"
                            [] FirstFailingStep(files) = "lockfile read" -> "FileSystemError"
                            [] FirstFailingStep(files) = "lockfile parse" -> "MalformedPackageLockError"
                            [] OTHER -> "none"
        /\ NoRegistryLookup

\* a call of fetchLatestVersions rejected and analyze rejected with it
ResolutionFailed == pc = "rejected"

NoReport ==
    /\ pc # "done"
    /\ safe = <<>> /\ blocked = <<>> /\ majorJump = <<>> /\ allDependencies = <<>>

\* C21: when fetchLatestVersions rejects, in stage 1 or in stage 2, analyze
\* returns no report and rejects with an error whose message carries
\* 'Failed to fetch latest package versions'.
C21_ResolutionFailureIsWrapped ==
    ResolutionFailed =>
        /\ NoReport
        /\ thrown.context = "Failed to fetch latest package versions"

\* the limit the claim states, by cases: 3 up to 30 names, 15 from 141 names
\* on, a tenth of the names rounded up in between
Limit(n) ==
    IF n <= 30 THEN 3
    ELSE IF n > 140 THEN 15
    ELSE CHOOSE l \in 4..14 : 10 * (l - 1) < n /\ n <= 10 * l

\* ceil(n / l)
Rounds(n, l) == CHOOSE r \in 0..n : l * (r - 1) < n /\ n <= l * r

\* the lookups that have started and not settled
InFlight == {k \in 1..Len(lookups) : lookups[k].phase \in {"inflight", "backoff"}}

Previewed == pc = "previewed"

PlanPackages == SeqToSet(plan.packages)

\* C23: with safeOnly set, every package of the plan previewUpdate returns
\* has category safe and update type patch or minor, and is neither a major
\* jump nor a blocked dependency of the report.
C23_SafeOnlyPlanIsSafe ==
    (Previewed /\ plan.options.safeOnly) =>
        \A u \in PlanPackages :
            /\ u.category = "safe"
            /\ u.updateType \in {"patch", "minor"}
            /\ u.name \in NamesIn(safe)
            /\ u.name \notin NamesIn(majorJump) \cup NamesIn(blocked)

\* a safe-only plan that lists a package while the report has major jumps
\* and blocked dependencies
C23_Witness ==
    /\ Previewed
    /\ plan.options.safeOnly
    /\ plan.packages # <<>>
    /\ majorJump # <<>>
    /\ blocked # <<>>

\* the names the manifest declares under devDependencies and not under
\* dependencies
DevOnly ==
    SeqToSet(ObjKeys(packageJson.devDependencies))
        \ SeqToSet(ObjKeys(packageJson.dependencies))

\* C24: without includeDev the plan of previewUpdate lists no package that
\* the manifest declares under devDependencies only; with includeDev (and
\* without safeOnly) every such package that the report lists is in the plan.
C24_IncludeDevFilters ==
    Previewed =>
        /\ ~plan.options.includeDev =>
               \A u \in PlanPackages : u.name \notin DevOnly
        /\ (plan.options.includeDev /\ ~plan.options.safeOnly) =>
               \A name \in DevOnly :
                   InNoBucket(name) \/ \E u \in PlanPackages : u.name = name

TableBuilt == pc \in {"index", "classify", "done", "previewed"}

\* the positions of the lockfile entries whose path gives this name
PathsOf(name) ==
    {k \in 1..Len(packageLock) :
         packageLock[k].path # <<>> /\ extractPackageName(packageLock[k].path) = name}

FirstPathOf(name) == CHOOSE k \in PathsOf(name) : \A other \in PathsOf(name) : k <= other

\* C25: the package table holds exactly one record per package name of the
\* lockfile, and the version, dependencies and peer dependencies of the
\* record are those of the first lockfile path that gives the name.
C25_FirstPathWins ==
    TableBuilt =>
        /\ \A i, j \in 1..Len(allPackagesMap.keys) :
               allPackagesMap.keys[i] = allPackagesMap.keys[j] => i = j
        /\ SeqToSet(allPackagesMap.keys) = DOMAIN allPackagesMap.val
        /\ \A name \in DOMAIN allPackagesMap.val :
               /\ PathsOf(name) # {}
               /\ allPackagesMap.val[name].name = name
               /\ allPackagesMap.val[name].resolved = packageLock[FirstPathOf(name)].version
               /\ allPackagesMap.val[name].dependencies =
                      packageLock[FirstPathOf(name)].dependencies
               /\ allPackagesMap.val[name].peerDependencies =
                      packageLock[FirstPathOf(name)].peerDependencies

IndexBuilt == pc \in {"classify", "done", "previewed"}

\* the record of A in the package table declares B
Declares(A, B) ==
    /\ MapHas(allPackagesMap, A)
    /\ \/ B \in DOMAIN allPackagesMap.val[A].dependencies
       \/ B \in DOMAIN allPackagesMap.val[A].peerDependencies

\* the reverse index lists A as a requirer of B
Requires(A, B) ==
    /\ B \in DOMAIN reverseDependencyIndex
    /\ A \in SeqToSet(reverseDependencyIndex[B])

NamesOfIndex ==
    DOMAIN allPackagesMap.val \cup DOMAIN reverseDependencyIndex
        \cup UNION {SeqToSet(reverseDependencyIndex[B]) : B \in DOMAIN reverseDependencyIndex}
        \cup UNION {DOMAIN r.dependencies \cup DOMAIN r.peerDependencies : r \in Records}

IndexMatchesTable ==
    IndexBuilt =>
        /\ \A A \in NamesOfIndex, B \in NamesOfIndex : Requires(A, B) <=> Declares(A, B)
        /\ \A A \in DOMAIN allPackagesMap.val :
               dependencyIndex[A] = {B \in NamesOfIndex : Declares(A, B)}

ClassificationKeepsIndex ==
    (pc = "classify") =>
        UNCHANGED <<dependencyIndex, reverseDependencyIndex, allPackagesMap>>

\* C26: once the dependency index is built, the reverse index lists A as a
\* requirer of B exactly when A's record in the package table declares B
\* under dependencies or peerDependencies (and the forward index of A is the
\* set of those B), and no step of the classification changes the index.
C26_ReverseIndexMatchesTable ==
    []IndexMatchesTable /\ [][ClassificationKeepsIndex]_vars

\* the report is returned for a table in which some package requires
\* another through a peer range only
C26_Witness ==
    /\ pc = "done"
    /\ depIdx > 1
    /\ \E A \in NamesOfIndex, B \in NamesOfIndex :
           /\ Requires(A, B)
           /\ B \notin DOMAIN allPackagesMap.val[A].dependencies

Stage2Done == pc \in {"table", "index", "classify", "done", "previewed"}

\* the names the manifest declares, under either section
ManifestNames ==
    SeqToSet(ObjKeys(packageJson.dependencies))
        \cup SeqToSet(ObjKeys(packageJson.devDependencies))

\* the range the manifest requests for a name: devDependencies over dependencies
ManifestRange(name) ==
    OrElse(ObjGet(packageJson.devDependencies, name),
           ObjGet(packageJson.dependencies, name))

\* the installed top-level dependencies whose latest version is resolved and
\* outside the range the manifest requests
PotentiallyBlockedNames ==
    {name \in ManifestNames :
         /\ isValidPackageName(name)
         /\ PathsOf(name) # {}
         /\ registry[name] # unknown
         /\ Truthy(ManifestRange(name))
         /\ ~semverSatisfies(registry[name], ManifestRange(name))}

\* the valid names of the installed packages that are not top-level and
\* declare a range on a potentially blocked name
PossibleBlockers ==
    {extractPackageName(package.path) :
         package \in {q \in Installed :
                          /\ isValidPackageName(extractPackageName(q.path))
                          /\ extractPackageName(q.path) \notin ManifestNames
                          /\ \E target \in PotentiallyBlockedNames :
                                 DeclaredRanges(q, target) # {}}}

\* C27: stage 2 requests versions exactly for the valid-named packages of the
\* lockfile that are not top-level and declare a dependency or peer range on
\* a potentially blocked name; without a potentially blocked name it requests
\* nothing; and no name is requested in both stages.
C27_Stage2RequestsPossibleBlockers ==
    Stage2Done =>
        /\ SeqToSet(transitivePackagesToFetch) = PossibleBlockers
        /\ PotentiallyBlockedNames = {} => transitivePackagesToFetch = <<>>
        /\ SeqToSet(transitivePackagesToFetch) \cap SeqToSet(topLevelPackageNames) = {}

\* the registries that answer as the registry of the state for name, and for
\* each other name either nothing or a new major version
RegistriesAgreeingOn(name) ==
    {[n \in DOMAIN registry |-> IF n = name THEN registry[name] ELSE others[n]] :
         others \in [DOMAIN registry \ {name} -> {unknown, V(2, 0, 0)}]}

\* the <<name, bucket, blocker>> triples of a report that are about name
About(report, name) == {entry \in report : entry[1] = name}

\* C28: the bucket and the blocker of a top-level dependency D are the same
\* in every analysis of the project in which the registry answers the same
\* latest version for D, whatever it answers for the other packages.
C28_OtherLatestVersionsDoNotMatter ==
    Done =>
        \A name \in ManifestNames \cap DOMAIN registry :
            \A versions \in RegistriesAgreeingOn(name) :
                About(ReportWith(packageJson, packageLock, versions), name)
                    = About(Reported, name)

\* a returned report with a blocked dependency whose blocker the registry
\* knows a newer version of
C28_Witness ==
    /\ Done
    /\ \E i \in 1..Len(blocked) :
           /\ blocked[i].blocker \in DOMAIN registry
           /\ registry[blocked[i].blocker] # unknown
           /\ \E versions \in RegistriesAgreeingOn(blocked[i].name) :
                  versions[blocked[i].blocker] = unknown

\* the selected updates have been validated
Validated == pc = "validated"

\* some installed package declares, under dependencies or peerDependencies, a
\* range on the package of the update that the target version is outside of
BreaksDeclaredRange(update) ==
    \E package \in Installed :
        \E r \in DeclaredRanges(package, update.name) :
            ~semverSatisfies(update.targetVersion, r)

\* as BreaksDeclaredRange, for the range the analysis reads (the dependencies
\* range when there is a truthy one, else the peerDependencies range)
BreaksEffectiveRange(update) ==
    \E package \in Installed :
        \E r \in EffectiveRanges(package, update.name) :
            ~semverSatisfies(update.targetVersion, r)

\* update has returned unsuccessfully with errors, before any backup and
\* without a call of the package manager
RefusedBeforeBackup ==
    /\ ~result.success
    /\ result.errors # <<>>
    /\ upc = "done"
    /\ backups = <<>>
    /\ calls = {}

\* C29: whenever the target version of a selected update is outside the range
\* some installed package declares on the updated package, the validation of
\* the selection has error findings and update returns unsuccessfully before
\* the backup stage, the package manager never invoked
C29_BreakingSelectionIsRefused ==
    Validated =>
        ((\E i \in 1..Len(selectedUpdates) : BreaksDeclaredRange(selectedUpdates[i]))
            => RefusedBeforeBackup)

\* C29 read on the effective range
C29_BreakingEffectiveRangeIsRefused ==
    Validated =>
        ((\E i \in 1..Len(selectedUpdates) : BreaksEffectiveRange(selectedUpdates[i]))
            => RefusedBeforeBackup)

\* a selection is refused for a broken range
C29_SomeRefused ==
    Validated /\ RefusedBeforeBackup

\* the result reports a failure other than that of applying one package: of
\* the pre-update validation, of the validation of the selection, of the
\* pre-update tests, of the post-update validation, of the post-update tests,
\* or an exception caught by update
StageFailureReported ==
    \E i \in 1..Len(result.errors) : result.errors[i][1] # "Failed to update"

\* C30: update returns a result and raises nothing, and success is false
\* exactly when a stage other than the apply loop reported a failure or an
\* exception escaped a stage; the failure of single packages leaves success
\* true
C30_SuccessFalseIffStageFailure ==
    UpdateDone =>
        /\ thrown = NoError
        /\ ~result.success <=> StageFailureReported
        /\ HasErrors(preValidationErrors) => ~result.success

\* update has returned success with a package it failed to update
C30_Witness ==
    /\ UpdateDone
    /\ result.success
    /\ result.failed # <<>>
    /\ "postValidation" \in SeqToSet(stages)

\* update has returned without success after updating every selected package
C30_FailedAfterApply ==
    /\ UpdateDone
    /\ ~result.success
    /\ result.failed = <<>>
    /\ result.updated # <<>>
    /\ ~options.dryRun
====
